---------------------------- MODULE Spec2Model ----------------------------
(***************************************************************************)
(* BiteIQBot: a Telegram nutrition bot.                                    *)
(*                                                                         *)
(*   src/telegram_bot.py  TelegramBot: command, callback and text handlers *)
(*                        and the two pending-input dictionaries           *)
(*   src/scheduler.py     Scheduler: the cron jobs send_daily_plan and     *)
(*                        send_reminder                                    *)
(*   src/app.py           the Flask application: the before_request        *)
(*                        initialisation hook and the /webhook view        *)
(*   src/openai_handler.py, src/database.py   the content generator and    *)
(*                        the record store the handlers call               *)
(*                                                                         *)
(* Three specifications share the variables:                               *)
(*   SpecBot    one handler invocation per step (TelegramBot)              *)
(*   SpecSched  the scheduled jobs, one recipient iteration per step       *)
(*   SpecApp    HTTP requests as cooperative tasks (gevent), one step per  *)
(*              stretch of code between two blocking calls                 *)
(*                                                                         *)
(* app.py imports ReminderScheduler and DEBUG, and openai_handler.py       *)
(* imports SupabaseDB, none of which the imported modules define; the      *)
(* model reads them as Scheduler, a debug flag and Database.               *)
(***************************************************************************)
EXTENDS Integers, Sequences, FiniteSets, TLC

\* ------------------------------------------------------------------ bounds

\* Number of recipients (telegram ids 1..NumUsers).
NumUsers == 2

\* Number of HTTP requests the application serves.
NumRequests == 2

\* Number of job functions executing at once.
MaxRunning == 1

Uid == 1..NumUsers

\* ------------------------------------------------- text: characters, fields

\* A text is a sequence of one-character strings.

LowerOf(c) ==
    CASE c = "A" -> "a"
      [] c = "B" -> "b"
      [] c = "C" -> "c"
      [] c = "D" -> "d"
      [] c = "E" -> "e"
      [] c = "F" -> "f"
      [] c = "G" -> "g"
      [] c = "H" -> "h"
      [] c = "I" -> "i"
      [] c = "J" -> "j"
      [] c = "K" -> "k"
      [] c = "L" -> "l"
      [] c = "M" -> "m"
      [] c = "N" -> "n"
      [] c = "O" -> "o"
      [] c = "P" -> "p"
      [] c = "Q" -> "q"
      [] c = "R" -> "r"
      [] c = "S" -> "s"
      [] c = "T" -> "t"
      [] c = "U" -> "u"
      [] c = "V" -> "v"
      [] c = "W" -> "w"
      [] c = "X" -> "x"
      [] c = "Y" -> "y"
      [] c = "Z" -> "z"
      [] OTHER -> c

\* str.lower()
Lower(s) == [i \in 1..Len(s) |-> LowerOf(s[i])]

IsSpace(c) == c \in {" ", "\n", "\t"}

IsDigit(c) == c \in {"0", "1", "2", "3", "4", "5", "6", "7", "8", "9"}

RECURSIVE LStrip(_)
LStrip(s) ==
    IF s # <<>> /\ IsSpace(Head(s)) THEN LStrip(Tail(s)) ELSE s

RECURSIVE RStrip(_)
RStrip(s) ==
    IF s # <<>> /\ IsSpace(s[Len(s)]) THEN RStrip(SubSeq(s, 1, Len(s) - 1)) ELSE s

\* str.strip()
Strip(s) == RStrip(LStrip(s))

\* c in s
HasChar(s, c) == \E i \in 1..Len(s) : s[i] = c

\* sub in s
Contains(s, sub) ==
    \E i \in 0..(Len(s) - Len(sub)) : SubSeq(s, i + 1, i + Len(sub)) = sub

\* s.startswith(p)
StartsWith(s, p) == Len(s) >= Len(p) /\ SubSeq(s, 1, Len(p)) = p

\* Index of the first c in s, 0 when there is none.
RECURSIVE FirstIndex(_, _, _)
FirstIndex(s, c, i) ==
    IF i > Len(s) THEN 0
    ELSE IF s[i] = c THEN i
    ELSE FirstIndex(s, c, i + 1)

\* s.split(c): the fields between every occurrence of c.
RECURSIVE Split(_, _)
Split(s, c) ==
    LET k == FirstIndex(s, c, 1)
    IN  IF k = 0 THEN <<s>>
        ELSE <<SubSeq(s, 1, k - 1)>> \o Split(SubSeq(s, k + 1, Len(s)), c)

\* re.sub(r"[^\d]", "", s)
RECURSIVE OnlyDigits(_)
OnlyDigits(s) ==
    IF s = <<>> THEN <<>>
    ELSE IF IsDigit(Head(s)) THEN <<Head(s)>> \o OnlyDigits(Tail(s))
    ELSE OnlyDigits(Tail(s))

\* re.sub(r"[^\d.]", "", s)
RECURSIVE OnlyDigitsAndDots(_)
OnlyDigitsAndDots(s) ==
    IF s = <<>> THEN <<>>
    ELSE IF IsDigit(Head(s)) \/ Head(s) = "." THEN <<Head(s)>> \o OnlyDigitsAndDots(Tail(s))
    ELSE OnlyDigitsAndDots(Tail(s))

DigitVal(c) ==
    CASE c = "0" -> 0 [] c = "1" -> 1 [] c = "2" -> 2 [] c = "3" -> 3 [] c = "4" -> 4
      [] c = "5" -> 5 [] c = "6" -> 6 [] c = "7" -> 7 [] c = "8" -> 8 [] c = "9" -> 9

\* The number a string of digits denotes (0 for the empty string).
RECURSIVE DigitsToNat(_)
DigitsToNat(s) ==
    IF s = <<>> THEN 0
    ELSE DigitsToNat(SubSeq(s, 1, Len(s) - 1)) * 10 + DigitVal(s[Len(s)])

\* Whether int(s) succeeds on a string of digits.
IntOk(s) == s # <<>>

\* Whether float(s) succeeds on a string of digits and dots.
FloatOk(s) ==
    /\ \E i \in 1..Len(s) : IsDigit(s[i])
    /\ Cardinality({i \in 1..Len(s) : s[i] = "."}) <= 1

RECURSIVE DropTrailingZeros(_)
DropTrailingZeros(s) ==
    IF s # <<>> /\ s[Len(s)] = "0" THEN DropTrailingZeros(SubSeq(s, 1, Len(s) - 1)) ELSE s

\* float(s) as whole part and fraction digits.
FloatVal(s) ==
    LET k == FirstIndex(s, ".", 1)
    IN  IF k = 0 THEN [whole |-> DigitsToNat(s), frac |-> <<>>]
        ELSE [whole |-> DigitsToNat(SubSeq(s, 1, k - 1)),
              frac  |-> DropTrailingZeros(SubSeq(s, k + 1, Len(s)))]

RECURSIVE NonEmptyStripped(_)
NonEmptyStripped(fs) ==
    IF fs = <<>> THEN <<>>
    ELSE IF Strip(Head(fs)) # <<>> THEN <<Strip(Head(fs))>> \o NonEmptyStripped(Tail(fs))
    ELSE NonEmptyStripped(Tail(fs))

\* The profile fields of a text: split on "," when it has one, else on line
\* breaks; each field stripped, empty fields dropped.
ProfileParts(txt) ==
    NonEmptyStripped(IF HasChar(txt, ",") THEN Split(txt, ",") ELSE Split(txt, "\n"))

\* A parser that takes the height from the fifth field and the weight from
\* the fourth.
parse_profile_input_swapped(txt) ==
    LET parts == ProfileParts(txt)
    IN  IF Len(parts) # 8 THEN [ok |-> FALSE]
        ELSE LET a == OnlyDigits(parts[2])
                 h == OnlyDigitsAndDots(parts[5])
                 w == OnlyDigitsAndDots(parts[4])
                 g == OnlyDigitsAndDots(parts[8])
             IN  IF ~(IntOk(a) /\ FloatOk(h) /\ FloatOk(w) /\ FloatOk(g))
                 THEN [ok |-> FALSE]
                 ELSE [ok |-> TRUE, name |-> parts[1], age |-> DigitsToNat(a),
                       gender |-> parts[3], height_cm |-> FloatVal(h),
                       weight_kg |-> FloatVal(w), activity |-> parts[6],
                       diet |-> parts[7], goal_kg |-> FloatVal(g)]

\* TelegramBot.parse_profile_input: ok is FALSE where the code returns None.
parse_profile_input(txt) ==
    LET parts == ProfileParts(txt)
    IN  IF Len(parts) # 8 THEN [ok |-> FALSE]
        ELSE LET a == OnlyDigits(parts[2])
                 h == OnlyDigitsAndDots(parts[4])
                 w == OnlyDigitsAndDots(parts[5])
                 g == OnlyDigitsAndDots(parts[8])
             IN  IF ~(IntOk(a) /\ FloatOk(h) /\ FloatOk(w) /\ FloatOk(g))
                 THEN [ok |-> FALSE]
                 ELSE [ok |-> TRUE, name |-> parts[1], age |-> DigitsToNat(a),
                       gender |-> parts[3], height_cm |-> FloatVal(h),
                       weight_kg |-> FloatVal(w), activity |-> parts[6],
                       diet |-> parts[7], goal_kg |-> FloatVal(g)]

\* The keyword list of handle_message.
Keywords ==
    { <<"d", "i", "e", "t">>,
      <<"c", "a", "l", "o", "r", "i", "e">>,
      <<"p", "r", "o", "t", "e", "i", "n">>,
      <<"c", "a", "r", "b">>,
      <<"f", "a", "t">>,
      <<"m", "e", "a", "l">>,
      <<"w", "e", "i", "g", "h", "t">>,
      <<"n", "u", "t", "r", "i", "t", "i", "o", "n">>,
      <<"k", "c", "a", "l">>,
      <<"r", "e", "c", "i", "p", "e">>,
      <<"b", "r", "e", "a", "k", "f", "a", "s", "t">>,
      <<"l", "u", "n", "c", "h">>,
      <<"d", "i", "n", "n", "e", "r">> }

\* any(k in text.lower() for k in [...])
HasKeyword(txt) == \E k \in Keywords : Contains(Lower(txt), k)

\* -------------------------------------------------------- the inputs drawn

\* The texts of Text events, by name.
TextIds == {"profile_csv", "profile_lines", "seven_fields", "nine_fields",
            "name_on_two_lines", "bad_age", "protein_question", "hello", "pasta"}

TextChars(t) ==
    CASE t = "profile_csv" ->
           <<"A", "n", "a", ",", "2", "9", ",", "F", ",", "1", "6", "5", ",", "6", "0", ",",
             "m", "e", "d", "i", "u", "m", ",", "n", "o", "n", "e", ",", "5", "5">>
      [] t = "profile_lines" ->
           <<"B", "o", "\n", "3", "1", "y", "\n", "M", "\n", "1", "8", "0", "c", "m", "\n",
             "8", "2", ".", "5", "\n", "h", "i", "g", "h", "\n", "v", "e", "g", "a", "n",
             "\n", "7", "8">>
      [] t = "seven_fields" ->
           <<"A", "n", "a", ",", "2", "9", ",", "F", ",", "1", "6", "5", ",", "6", "0", ",",
             "m", "e", "d", "i", "u", "m", ",", "n", "o", "n", "e">>
      [] t = "nine_fields" ->
           <<"A", "n", "a", ",", "2", "9", ",", "F", ",", "1", "6", "5", ",", "6", "0", ",",
             "m", "e", "d", "i", "u", "m", ",", "n", "o", "n", "e", ",", "5", "5", ",", "x">>
      [] t = "name_on_two_lines" ->
           <<"A", "n", "a", "\n", "L", "e", "e", ",", "2", "9", ",", "F", ",", "1", "6", "5",
             ",", "6", "0", ",", "m", "e", "d", "i", "u", "m", ",", "n", "o", "n", "e", ",",
             "5", "5">>
      [] t = "bad_age" ->
           <<"A", "n", "a", ",", "o", "l", "d", ",", "F", ",", "1", "6", "5", ",", "6", "0",
             ",", "m", "e", "d", "i", "u", "m", ",", "n", "o", "n", "e", ",", "5", "5">>
      [] t = "protein_question" ->
           <<"H", "o", "w", " ", "m", "u", "c", "h", " ", "p", "r", "o", "t", "e", "i", "n",
             " ", "d", "o", " ", "I", " ", "n", "e", "e", "d", "?">>
      [] t = "hello" -> <<"h", "e", "l", "l", "o">>
      [] t = "pasta" -> <<" ", "P", "a", "s", "t", "a", " ">>

\* handle_message works on update.message.text.strip().
MessageText == [t \in TextIds |-> Strip(TextChars(t))]

\* Whether parse_profile_input accepts the text, and whether it has a keyword.
TextParses == [t \in TextIds |-> parse_profile_input(MessageText[t]).ok]

TextHasKeyword == [t \in TextIds |-> HasKeyword(MessageText[t])]

\* What parse_profile_input returns for the text.
TextProfile == [t \in TextIds |-> parse_profile_input(MessageText[t])]

NoProfile == [ok |-> FALSE]

\* Database.upsert_user_profile as handle_message calls it, with the parsed
\* tuple taken apart in order: the columns written to the users row.
upsert_user_profile(p) ==
    [ok |-> TRUE, name |-> p.name, age |-> p.age, gender |-> p.gender,
     height_cm |-> p.height_cm, weight_kg |-> p.weight_kg, activity |-> p.activity,
     diet |-> p.diet, goal_kg |-> p.goal_kg]

\* The payloads of CallbackAction events, by name.
DataIds == {"rem_start", "rem_stop", "menu_tomorrow", "req_recipe", "ask_q",
            "subscribe", "manage_sub", "recipe_salad", "recipe_empty",
            "recipe_piped", "bogus"}

DataChars(d) ==
    CASE d = "rem_start" -> <<"r", "e", "m", "_", "s", "t", "a", "r", "t">>
      [] d = "rem_stop" -> <<"r", "e", "m", "_", "s", "t", "o", "p">>
      [] d = "menu_tomorrow" ->
           <<"m", "e", "n", "u", "_", "t", "o", "m", "o", "r", "r", "o", "w">>
      [] d = "req_recipe" -> <<"r", "e", "q", "_", "r", "e", "c", "i", "p", "e">>
      [] d = "ask_q" -> <<"a", "s", "k", "_", "q">>
      [] d = "subscribe" -> <<"s", "u", "b", "s", "c", "r", "i", "b", "e">>
      [] d = "manage_sub" -> <<"m", "a", "n", "a", "g", "e", "_", "s", "u", "b">>
      [] d = "recipe_salad" ->
           <<"r", "e", "c", "i", "p", "e", "|", "C", "h", "i", "c", "k", "e", "n", " ",
             "S", "a", "l", "a", "d">>
      [] d = "recipe_empty" -> <<"r", "e", "c", "i", "p", "e", "|">>
      [] d = "recipe_piped" ->
           <<"r", "e", "c", "i", "p", "e", "|", " ", "a", "|", "b", " ">>
      [] d = "bogus" -> <<"b", "o", "g", "u", "s">>

\* The command names of Command events; "settings" has no CommandHandler.
CommandNames == {"start", "menu", "help", "tomorrow", "subscribe", "settings"}


\* ---------------------------------------------------------------- variables

VARIABLES
    \* the record store (database.py)
    users,              \* uid -> "absent" | "row" (no name yet) | "named"
    reminders,          \* uid -> the reminders column
    \* TelegramBot
    awaiting_recipe,    \* the uids with awaiting_recipe[uid] = True
    awaiting_question,  \* the uids with awaiting_question[uid] = True
    ev,                 \* the event being handled and what its handler did
    flight,             \* request -> the handler at work on its update, at a blocking call
    \* Scheduler
    jobs,               \* the job ids added to the BackgroundScheduler
    run,                \* job id -> the execution of its function in progress
    instances,          \* job id -> the number of its executions in progress
    it,                 \* the last thing the scheduler did
    \* the Flask application
    bot_initialized,    \* hasattr(app, "_bot_initialized")
    bot_ready,          \* telegram_bot.initialize() has returned
    initc,              \* how often each step of the initialisation ran
    req,                \* request -> its route, body, position and response
    loops               \* the asyncio event loops the requests have open

botVars == <<users, reminders, awaiting_recipe, awaiting_question, ev, flight>>

schedVars == <<jobs, run, instances, it>>

appVars == <<bot_initialized, bot_ready, initc, req, loops>>

vars == <<botVars, schedVars, appVars>>

\* ------------------------------------------------------------ idle values

\* Scheduler.start: the six job ids.
JobIds ==
    { "daily_plan", "reminder_breakfast", "reminder_hydration_morning",
      "reminder_lunch", "reminder_hydration_afternoon", "reminder_dinner" }

\* No execution of the job's function is in progress.
IdleRun == [phase |-> "idle", snap |-> <<>>, log |-> <<>>]

NoStep == [kind |-> "none", job |-> "", uid |-> 0, fx |-> <<>>]

\* The scheduler with its jobs added and started, none of them executing.
SchedStarted ==
    /\ jobs = JobIds
    /\ run = [j \in JobIds |-> IdleRun]
    /\ instances = [j \in JobIds |-> 0]
    /\ it = NoStep

Req == 1..NumRequests

\* No handler is at work for the request.
NoFlight == [kind |-> "none", uid |-> 0, data |-> "", pc |-> "idle", took |-> "none"]

NoRequest == [route |-> "", body |-> "", pc |-> "idle", handler |-> "none", resp |-> 0]

\* The loop initialize_bot_once makes with asyncio.new_event_loop() and sets
\* as the current one; nothing closes it.
StartupLoop == [owner |-> "initialize_bot_once", req |-> 0]

\* The loop asyncio.run makes for the process_update of request r and closes
\* when the coroutine is through.
RunLoop(r) == [owner |-> "asyncio.run", req |-> r]

\* The application after initialize_bot_once has run through, no request
\* in progress.
AppStarted ==
    /\ bot_initialized = TRUE
    /\ bot_ready = TRUE
    /\ initc = [entered |-> 1, initialize |-> 1, set_webhook |-> 1, start |-> 1,
                failed |-> FALSE, done |-> TRUE]
    /\ req = [r \in Req |-> NoRequest]
    /\ loops = {StartupLoop}

\* ------------------------------------------------- TelegramBot: the effects

\* One thing a handler does: a call on the record store, the content
\* generator, Stripe or the Telegram API, or a write of a pending-input flag.
ET(op, arg, title) == [op |-> op, arg |-> arg, title |-> title]

E(op, arg) == ET(op, arg, <<>>)

\* The calls that can raise into the handler.  call_openai catches every
\* exception of the API call, so the gen_* effects never raise; is_subscribed
\* makes no call for a user that does not exist.
Faultable(e) ==
    \/ e.op \in {"get_user", "get_or_create_user", "upsert_profile", "recent_meals",
                 "save_plan", "add_history", "set_reminders", "get_subscription",
                 "checkout", "portal",
                 "reply", "edit", "send", "q_answer", "chat_action"}
    \/ e.op = "is_subscribed" /\ e.arg # "nouser"

\* The handler's effects when the k-th one raises (k = 0: none does) and
\* nothing in the handler catches it.
Cut(T, k) ==
    IF k = 0 THEN T ELSE SubSeq(T, 1, k - 1) \o <<E("raise", T[k].op)>>

\* What is_subscribed finds for u: no users row, or the answer active of
\* Database.has_active_subscription (an RPC on the subscriptions the Stripe
\* webhook maintains, drawn afresh by each event).
SubState(u, active) ==
    IF users[u] = "absent" THEN "nouser"
    ELSE IF active THEN "active" ELSE "inactive"

\* TelegramBot.is_subscribed(profile); s is SubState.
is_subscribed(s) == E("is_subscribed", s)

\* The gate with its early return left out.
SubscriptionGateOpen(s, prompt, body) == <<is_subscribed(s)>> \o body

\* The subscription gate every paid branch opens with:
\*   if not self.is_subscribed(u): <prompt>; return
SubscriptionGate(s, prompt, body) ==
    <<is_subscribed(s)>> \o (IF s = "active" THEN body ELSE <<prompt>>)

\* recent meals, plan generation, save_plan, add_meals_to_history, the plan message
PlanFlow(label, sendop) ==
    << E("recent_meals", ""), E("gen_plan", label), E("save_plan", label),
       E("add_history", ""), E(sendop, "plan") >>

\* OpenAIHandler.get_ai_response and the reply carrying the answer.
AnswerFlow(question) ==
    << E("get_user", ""), ET("gen_answer", "", question), E("reply", "answer") >>

\* ------------------------------------------------ TelegramBot: the commands

\* try: user record and the two welcome messages; except: the apology, in a
\* try of its own that only logs.
start_command(k, again) ==
    LET T == << E("get_or_create_user", ""), E("reply", "intro"), E("reply", "menu_hint") >>
    IN  IF k = 0 THEN T
        ELSE SubSeq(T, 1, k - 1) \o <<E("caught", T[k].op)>>
             \o (IF again THEN <<E("caught", "reply")>> ELSE <<E("reply", "apology")>>)

\* A /menu that also drops what the recipient was asked to type.
menu_command_resets(s) ==
    << E("get_user", ""), is_subscribed(s), E("pop_recipe", ""), E("pop_question", ""),
       E("reply", "menu") >>

menu_command(s) ==
    << E("get_user", ""), is_subscribed(s), E("reply", "menu") >>

help_command == << E("reply", "help") >>

tomorrow_command(u, s) ==
    <<E("get_user", "")>> \o
    (IF users[u] # "named" THEN <<E("reply", "profile_first")>>
     ELSE SubscriptionGate(s, E("reply", "subscribe_prompt"), PlanFlow("tomorrow", "reply")))

\* try: checkout session and its link; except: the error message, which is
\* outside any try.
CheckoutFlow(sendop, k, again) ==
    LET T == << E("get_or_create_user", ""), E("checkout", ""), E(sendop, "checkout_link") >>
    IN  IF k = 0 THEN T
        ELSE SubSeq(T, 1, k - 1) \o <<E("caught", T[k].op)>>
             \o (IF again THEN <<E("raise", sendop)>> ELSE <<E(sendop, "checkout_error")>>)

subscribe_command(k, again) == CheckoutFlow("reply", k, again)

\* --------------------------------------------- TelegramBot.handle_message

RecipeTitleBranch(s, t) ==
    <<E("pop_recipe", ""), E("get_user", "")>> \o
    SubscriptionGate(s, E("reply", "subscribe_prompt"),
                     << ET("gen_recipe", "", MessageText[t]), E("reply", "recipe") >>)

\* A branch that pops the flag only once the answer has been sent.
QuestionBranchPopAfter(s, t) ==
    <<E("get_user", "")>> \o
    SubscriptionGate(s, E("reply", "subscribe_prompt"),
                     AnswerFlow(MessageText[t]) \o <<E("pop_question", "")>>)

QuestionBranch(s, t) ==
    <<E("pop_question", ""), E("get_user", "")>> \o
    SubscriptionGate(s, E("reply", "subscribe_prompt"), AnswerFlow(MessageText[t]))

\* A branch that prepares the plan before it stores the profile.
ProfileBranchPlanFirst(t) ==
    << E("reply", "preparing"), E("chat_action", "typing"),
       E("recent_meals", ""), E("gen_plan", "today"),
       ET("upsert_profile", "", MessageText[t]), E("get_user", ""),
       E("save_plan", "today"),
       E("add_history", ""), E("reply", "plan"), E("reply", "reminders_prompt") >>

\* parsed: upsert_user_profile, the row read back, the two notices, then
\* the plan for "today" generated from that row, saved, added to the history
\* and sent, and the question about reminders.
ProfileBranch(t) ==
    << ET("upsert_profile", "", MessageText[t]), E("get_user", ""),
       E("reply", "preparing"), E("chat_action", "typing"),
       E("recent_meals", ""), E("gen_plan", "today"), E("save_plan", "today"),
       E("add_history", ""), E("reply", "plan"), E("reply", "reminders_prompt") >>

\* A branch that answers a question with a keyword whatever is_subscribed
\* says.
FreeTextBranchUngated(s, t) ==
    IF ~TextHasKeyword[t] THEN <<E("reply", "on_topic")>>
    ELSE <<E("get_user", ""), is_subscribed(s)>> \o AnswerFlow(MessageText[t])

\* A branch that looks the subscription up before it looks for keywords.
FreeTextBranchLookupFirst(s, t) ==
    <<E("get_user", ""), is_subscribed(s)>> \o
    (IF ~TextHasKeyword[t] THEN <<E("reply", "on_topic")>>
     ELSE IF s = "active" THEN AnswerFlow(MessageText[t])
     ELSE <<E("reply", "subscribe_prompt")>>)

\* Neither pending input nor a profile: without a keyword the on-topic
\* notice; with one, the subscription gate and then the answer.
FreeTextBranch(s, t) ==
    IF ~TextHasKeyword[t] THEN <<E("reply", "on_topic")>>
    ELSE <<E("get_user", "")>> \o
         SubscriptionGate(s, E("reply", "subscribe_prompt"), AnswerFlow(MessageText[t]))

handle_message(u, s, t) ==
    IF u \in awaiting_recipe THEN RecipeTitleBranch(s, t)
    ELSE IF u \in awaiting_question THEN QuestionBranch(s, t)
    ELSE IF TextParses[t] THEN ProfileBranch(t)
    ELSE FreeTextBranch(s, t)

\* --------------------------------------------- TelegramBot.button_callback

\* A title taken after the last "|" of the payload.
RecipeTitleOfLastBar(data) ==
    LET parts == Split(data, "|")
        title == Strip(parts[Len(parts)])
    IN  IF title = <<>> THEN <<"M", "e", "a", "l">> ELSE title

\* data.split("|", 1)[1].strip() or "Meal"
RecipeTitleOf(data) ==
    LET k     == FirstIndex(data, "|", 1)
        title == Strip(SubSeq(data, k + 1, Len(data)))
    IN  IF title = <<>> THEN <<"M", "e", "a", "l">> ELSE title

\* The branch the if/elif chain of button_callback takes on a payload; the
\* chain has no final else.
BranchOfData(data) ==
    IF data = <<"r", "e", "m", "_", "s", "t", "a", "r", "t">> THEN "rem_start"
    ELSE IF data = <<"r", "e", "m", "_", "s", "t", "o", "p">> THEN "rem_stop"
    ELSE IF data = <<"m", "e", "n", "u", "_", "t", "o", "m", "o", "r", "r", "o", "w">>
      THEN "menu_tomorrow"
    ELSE IF data = <<"r", "e", "q", "_", "r", "e", "c", "i", "p", "e">> THEN "req_recipe"
    ELSE IF StartsWith(data, <<"r", "e", "c", "i", "p", "e", "|">>) THEN "recipe"
    ELSE IF data = <<"a", "s", "k", "_", "q">> THEN "ask_q"
    ELSE IF data = <<"s", "u", "b", "s", "c", "r", "i", "b", "e">> THEN "subscribe"
    ELSE IF data = <<"m", "a", "n", "a", "g", "e", "_", "s", "u", "b">> THEN "manage_sub"
    ELSE "none"

\* For each payload drawn: the branch taken and the recipe title extracted.
CallbackBranch == [d \in DataIds |-> BranchOfData(DataChars(d))]

CallbackTitle == [d \in DataIds |-> RecipeTitleOf(DataChars(d))]

ReqRecipeAction(s) ==
    SubscriptionGate(s, E("edit", "subscribe_prompt"),
                     << E("set_recipe", ""), E("send", "ask_meal_name") >>)

\* An ask_q that sets the flag whatever is_subscribed says.
AskQActionUngated(s) ==
    << is_subscribed(s), E("set_question", ""), E("send", "ask_question") >>

AskQAction(s) ==
    SubscriptionGate(s, E("edit", "subscribe_prompt"),
                     << E("set_question", ""), E("send", "ask_question") >>)

RecipeAction(s, d) ==
    SubscriptionGate(s, E("edit", "subscribe_prompt"),
                     << ET("gen_recipe", "", CallbackTitle[d]), E("send", "recipe") >>)

\* A menu_tomorrow that asks for the subscription before it looks at the
\* profile.
MenuTomorrowActionGateFirst(u, s) ==
    SubscriptionGate(s, E("edit", "subscribe_prompt"),
                     IF users[u] # "named" THEN <<E("edit", "profile_first")>>
                     ELSE PlanFlow("tomorrow", "send"))

MenuTomorrowAction(u, s) ==
    IF users[u] # "named" THEN <<E("edit", "profile_first")>>
    ELSE SubscriptionGate(s, E("edit", "subscribe_prompt"), PlanFlow("tomorrow", "send"))

\* The subscribe action: CheckoutFlow with the link sent by bot.send_message.
SubscribeAction(k, again) == CheckoutFlow("send", k, again)

\* manage_sub: the users row carries no stripe_customer_id, so the customer is
\* looked up in subscriptions by u['id'], which raises when u is None; found
\* says whether that row exists.  The portal session and its message are in
\* a try whose except sends the error message.
ManageSubAction(u, found, k, again) ==
    IF users[u] = "absent" THEN <<E("raise", "user_id")>>
    ELSE IF ~found THEN Cut(<< E("get_subscription", ""), E("send", "no_subscription") >>, k)
    ELSE LET T == << E("get_subscription", ""), E("portal", ""), E("send", "portal_link") >>
         IN  IF k <= 1 THEN Cut(T, k)
             ELSE SubSeq(T, 1, k - 1) \o <<E("caught", T[k].op)>>
                  \o (IF again THEN <<E("raise", "send")>> ELSE <<E("send", "portal_error")>>)

\* The if/elif chain of button_callback after q.answer() and get_user, when
\* its k-th effect raises.
CallbackBody(u, s, d, found, k, again) ==
    LET b == CallbackBranch[d]
    IN  CASE b = "rem_start" ->
               Cut(<< E("set_reminders", "on"), E("edit", "reminders_on") >>, k)
          [] b = "rem_stop" ->
               Cut(<< E("set_reminders", "off"), E("edit", "reminders_off") >>, k)
          [] b = "menu_tomorrow" -> Cut(MenuTomorrowAction(u, s), k)
          [] b = "req_recipe" -> Cut(ReqRecipeAction(s), k)
          [] b = "recipe" -> Cut(RecipeAction(s, d), k)
          [] b = "ask_q" -> Cut(AskQAction(s), k)
          [] b = "subscribe" -> SubscribeAction(k, again)
          [] b = "manage_sub" -> ManageSubAction(u, found, k, again)
          [] OTHER -> <<>>

CallbackHead == << E("q_answer", ""), E("get_user", "") >>

\* button_callback when the k-th effect of its run without failure raises.
button_callback(u, s, d, found, k, again) ==
    IF k \in 1..Len(CallbackHead) THEN Cut(CallbackHead, k)
    ELSE CallbackHead \o
         CallbackBody(u, s, d, found, IF k = 0 THEN 0 ELSE k - Len(CallbackHead), again)

\* ------------------------------------------------------------- dispatching

\* A table in which help_command takes every command no other handler takes.
HandlerOfCatchAll(kind, data) ==
    IF kind = "Command"
      THEN (CASE data = "start" -> "start_command"
              [] data = "menu" -> "menu_command"
              [] data = "tomorrow" -> "tomorrow_command"
              [] data = "subscribe" -> "subscribe_command"
              [] OTHER -> "help_command")
    ELSE IF kind = "CallbackAction" THEN "button_callback"
    ELSE "handle_message"

\* Application.process_update hands the update to the first handler of
\* setup_handlers that accepts it: the five CommandHandlers, the
\* CallbackQueryHandler, the MessageHandler for text that is no command.
HandlerOf(kind, data) ==
    IF kind = "Command"
      THEN (CASE data = "start" -> "start_command"
              [] data = "menu" -> "menu_command"
              [] data = "help" -> "help_command"
              [] data = "tomorrow" -> "tomorrow_command"
              [] data = "subscribe" -> "subscribe_command"
              [] OTHER -> "none")
    ELSE IF kind = "CallbackAction" THEN "button_callback"
    ELSE "handle_message"

\* setup_handlers: the handlers in the order of their add_handler calls, each
\* added without a group, that is to group 0.
Handlers ==
    << [type |-> "CommandHandler", command |-> "start", callback |-> "start_command", group |-> 0],
       [type |-> "CommandHandler", command |-> "menu", callback |-> "menu_command", group |-> 0],
       [type |-> "CommandHandler", command |-> "help", callback |-> "help_command", group |-> 0],
       [type |-> "CommandHandler", command |-> "tomorrow", callback |-> "tomorrow_command", group |-> 0],
       [type |-> "CommandHandler", command |-> "subscribe", callback |-> "subscribe_command", group |-> 0],
       [type |-> "CallbackQueryHandler", command |-> "", callback |-> "button_callback", group |-> 0],
       [type |-> "MessageHandler", command |-> "", callback |-> "handle_message", group |-> 0] >>

\* A CallbackQueryHandler that takes every update.
AcceptsEveryUpdate(h, kind, data) ==
    CASE h.type = "CommandHandler" -> kind = "Command" /\ data = h.command
      [] h.type = "CallbackQueryHandler" -> TRUE
      [] h.type = "MessageHandler" -> kind = "Text"

\* Whether the handler takes the update: a CommandHandler its command, the
\* CallbackQueryHandler every callback query, the MessageHandler with
\* filters.TEXT & ~filters.COMMAND a text message that is no command.
Accepts(h, kind, data) ==
    CASE h.type = "CommandHandler" -> kind = "Command" /\ data = h.command
      [] h.type = "CallbackQueryHandler" -> kind = "CallbackAction"
      [] h.type = "MessageHandler" -> kind = "Text"

\* The first handler of group g that takes the update, if there is one.
FirstOfGroup(g, kind, data) ==
    LET S == {i \in 1..Len(Handlers) :
                 Handlers[i].group = g /\ Accepts(Handlers[i], kind, data)}
    IN  IF S = {} THEN <<>>
        ELSE <<Handlers[CHOOSE i \in S : \A k \in S : i <= k].callback>>

RECURSIVE InvokedFrom(_, _, _)
InvokedFrom(g, kind, data) ==
    IF \A i \in 1..Len(Handlers) : Handlers[i].group < g THEN <<>>
    ELSE FirstOfGroup(g, kind, data) \o InvokedFrom(g + 1, kind, data)

\* Application.process_update: the callbacks called for an update, in each
\* group that of the first handler that takes it.
Invoked(kind, data) == InvokedFrom(0, kind, data)

\* Invoked, for each kind of update and each payload drawn.
Dispatch ==
    [kind \in {"Command", "CallbackAction", "Text"} |->
        [data \in CommandNames \cup DataIds \cup TextIds |-> Invoked(kind, data)]]

\* What the handler of the event does when the k-th effect of its run
\* without failure raises (k = 0: none), and, for a handler that catches,
\* when the message its except branch sends raises too (again).
HandlerFx(u, s, kind, data, found, k, again) ==
    LET h == HandlerOf(kind, data)
    IN  CASE h = "start_command" -> start_command(k, again)
          [] h = "menu_command" -> Cut(menu_command(s), k)
          [] h = "help_command" -> Cut(help_command, k)
          [] h = "tomorrow_command" -> Cut(tomorrow_command(u, s), k)
          [] h = "subscribe_command" -> subscribe_command(k, again)
          [] h = "button_callback" -> button_callback(u, s, data, found, k, again)
          [] h = "handle_message" -> Cut(handle_message(u, s, data), k)
          [] OTHER -> <<>>

Ops(fx) == {fx[i].op : i \in 1..Len(fx)}

\* Whether a failure of the k-th effect is caught by the handler's own
\* try/except (start_command, the two checkout flows, the portal of manage_sub).
CaughtAt(u, kind, data, found, k) ==
    LET h == HandlerOf(kind, data)
    IN  /\ k # 0
        /\ \/ h \in {"start_command", "subscribe_command"}
           \/ /\ h = "button_callback"
              /\ k > Len(CallbackHead)
              /\ \/ CallbackBranch[data] = "subscribe"
                 \/ /\ CallbackBranch[data] = "manage_sub"
                    /\ users[u] # "absent" /\ found
                    /\ k > Len(CallbackHead) + 1

\* The fault positions of an event whose run without failure is T: k is 0
\* or the place of a call that can raise; again only where the handler
\* catches the failure.
FaultChoice(u, kind, data, found, T, k, again) ==
    /\ k # 0 => Faultable(T[k])
    /\ again => CaughtAt(u, kind, data, found, k)

\* A handler whose pop empties the dictionary.
HandledClearingAll(u, s, kind, data, fx) ==
    /\ awaiting_recipe' =
         IF "set_recipe" \in Ops(fx) THEN awaiting_recipe \cup {u}
         ELSE IF "pop_recipe" \in Ops(fx) THEN {}
         ELSE awaiting_recipe
    /\ awaiting_question' =
         IF "set_question" \in Ops(fx) THEN awaiting_question \cup {u}
         ELSE IF "pop_question" \in Ops(fx) THEN {}
         ELSE awaiting_question
    /\ users' =
         IF "upsert_profile" \in Ops(fx) THEN [users EXCEPT ![u] = "named"]
         ELSE IF "get_or_create_user" \in Ops(fx) /\ users[u] = "absent"
           THEN [users EXCEPT ![u] = "row"]
         ELSE users
    /\ reminders' =
         IF users[u] # "absent" /\ \E i \in 1..Len(fx) : fx[i].op = "set_reminders"
           THEN [reminders EXCEPT ![u] =
                    \E i \in 1..Len(fx) : fx[i].op = "set_reminders" /\ fx[i].arg = "on"]
         ELSE reminders
    /\ ev' = [uid |-> u, kind |-> kind, data |-> data,
              handler |-> HandlerOf(kind, data), fx |-> fx,
              had_recipe |-> u \in awaiting_recipe,
              had_question |-> u \in awaiting_question,
              was |-> s,
              profile |-> IF kind = "Text" /\ "upsert_profile" \in Ops(fx)
                            THEN upsert_user_profile(TextProfile[data])
                            ELSE NoProfile]
    /\ UNCHANGED <<flight, schedVars, appVars>>

\* The state after a handler with effects fx ran for u.
Handled(u, s, kind, data, fx) ==
    /\ awaiting_recipe' =
         IF "set_recipe" \in Ops(fx) THEN awaiting_recipe \cup {u}
         ELSE IF "pop_recipe" \in Ops(fx) THEN awaiting_recipe \ {u}
         ELSE awaiting_recipe
    /\ awaiting_question' =
         IF "set_question" \in Ops(fx) THEN awaiting_question \cup {u}
         ELSE IF "pop_question" \in Ops(fx) THEN awaiting_question \ {u}
         ELSE awaiting_question
    /\ users' =
         IF "upsert_profile" \in Ops(fx) THEN [users EXCEPT ![u] = "named"]
         ELSE IF "get_or_create_user" \in Ops(fx) /\ users[u] = "absent"
           THEN [users EXCEPT ![u] = "row"]
         ELSE users
    /\ reminders' =
         IF users[u] # "absent" /\ \E i \in 1..Len(fx) : fx[i].op = "set_reminders"
           THEN [reminders EXCEPT ![u] =
                    \E i \in 1..Len(fx) : fx[i].op = "set_reminders" /\ fx[i].arg = "on"]
         ELSE reminders
    /\ ev' = [uid |-> u, kind |-> kind, data |-> data,
              handler |-> HandlerOf(kind, data), fx |-> fx,
              had_recipe |-> u \in awaiting_recipe,
              had_question |-> u \in awaiting_question,
              was |-> s,
              profile |-> IF kind = "Text" /\ "upsert_profile" \in Ops(fx)
                            THEN upsert_user_profile(TextProfile[data])
                            ELSE NoProfile]
    /\ UNCHANGED <<flight, schedVars, appVars>>

\* ------------------------------------------------------ SpecBot: the steps

NoEvent == [uid |-> 0, kind |-> "none", data |-> "", handler |-> "none", fx |-> <<>>,
            had_recipe |-> FALSE, had_question |-> FALSE, was |-> "nouser",
            profile |-> NoProfile]

\* One update is processed: the event of kind and data for recipient u is
\* handled.  active is what has_active_subscription answers during it (drawn
\* only where the handler asks) and found what the subscriptions lookup of
\* manage_sub finds.
HandleEvent(u, kind, data, active, found) ==
    LET s == SubState(u, active)
        T == HandlerFx(u, s, kind, data, found, 0, FALSE)
    IN  /\ ev = NoEvent
        /\ active => "is_subscribed" \in Ops(T)
        /\ \E k \in 0..Len(T), again \in BOOLEAN :
              /\ FaultChoice(u, kind, data, found, T, k, again)
              /\ Handled(u, s, kind, data, HandlerFx(u, s, kind, data, found, k, again))

CommandEvent ==
    /\ ev = NoEvent
    /\ \E u \in Uid, name \in CommandNames, active \in BOOLEAN :
        /\ active => users[u] # "absent"
        /\ HandleEvent(u, "Command", name, active, FALSE)

CallbackEvent ==
    /\ ev = NoEvent
    /\ \E u \in Uid, d \in DataIds, active \in BOOLEAN, found \in BOOLEAN :
        /\ active => users[u] # "absent"
        /\ found => d = "manage_sub" /\ users[u] # "absent"
        /\ (d = "manage_sub" /\ active) => found
        /\ HandleEvent(u, "CallbackAction", d, active, found)

TextEvent ==
    /\ ev = NoEvent
    /\ \E u \in Uid, t \in TextIds, active \in BOOLEAN :
        /\ active => users[u] # "absent"
        /\ HandleEvent(u, "Text", t, active, FALSE)

\* process_update returns: the next update can be processed.
EventDone ==
    /\ ev # NoEvent
    /\ ev' = NoEvent
    /\ UNCHANGED <<users, reminders, awaiting_recipe, awaiting_question, flight>>
    /\ UNCHANGED <<schedVars, appVars>>

\* The record store holds what earlier runs of the process left in it; the
\* reminders column belongs to a users row.
StoreInit ==
    /\ users \in [Uid -> {"absent", "row", "named"}]
    /\ reminders \in [Uid -> BOOLEAN]
    /\ \A u \in Uid : users[u] = "absent" => ~reminders[u]

\* TelegramBot.__init__: both dictionaries empty.
BotInit ==
    /\ awaiting_recipe = {}
    /\ awaiting_question = {}
    /\ ev = NoEvent
    /\ flight = [e \in Req |-> NoFlight]

InitBot == StoreInit /\ BotInit /\ SchedStarted /\ AppStarted

NextBot == CommandEvent \/ CallbackEvent \/ TextEvent \/ EventDone

SpecBot == InitBot /\ [][NextBot]_vars


\* ------------------------------------------------------ SpecBot: properties

GenOps == {"gen_plan", "gen_recipe", "gen_answer"}

\* An is_subscribed that answered active comes before the i-th effect.
GateOpenBefore(fx, i) == \E j \in 1..(i - 1) : fx[j] = E("is_subscribed", "active")

\* The event is a Text event taken by the profile branch of handle_message.
ProfileSubmission ==
    /\ ev.kind = "Text"
    /\ ~ev.had_recipe /\ ~ev.had_question
    /\ TextParses[ev.data]

SubscribePrompts ==
    { E("reply", "subscribe_prompt"), E("edit", "subscribe_prompt"),
      E("raise", "reply"), E("raise", "edit") }

\* C3 as stated: on every handler path, a call of the content generator
\* comes after a subscription check of the same event that found the
\* subscription active.
C3_EveryGeneratorCallGated ==
    \A i \in 1..Len(ev.fx) : ev.fx[i].op \in GenOps => GateOpenBefore(ev.fx, i)

\* C3 amended: on every handler path but the profile submission, a call of
\* the content generator comes after a subscription check of the same event
\* that found the subscription active; a check that finds it inactive (or no
\* user) is followed by the subscribe prompt alone, and no generator call is
\* made.  (menu_command asks is_subscribed for its keyboard only.)
C3_GeneratorCallGatedExceptProfile ==
    ~ProfileSubmission =>
        /\ \A i \in 1..Len(ev.fx) : ev.fx[i].op \in GenOps => GateOpenBefore(ev.fx, i)
        /\ \A j \in 1..Len(ev.fx) :
              ( /\ ev.fx[j].op = "is_subscribed"
                /\ ev.fx[j].arg # "active"
                /\ ev.handler # "menu_command" )
              => /\ Len(ev.fx) = j + 1
                 /\ ev.fx[j + 1] \in SubscribePrompts
                 /\ \A i \in 1..Len(ev.fx) : ev.fx[i].op \notin GenOps

\* C3 witness: a recipe title typed by a recipient whose subscription is
\* inactive is answered with the subscribe prompt.
C3_Witness ==
    /\ ev.handler = "handle_message" /\ ev.had_recipe
    /\ ev.was = "inactive"
    /\ ev.fx[Len(ev.fx)] = E("reply", "subscribe_prompt")

\* C4 as stated: no recipient has both pending inputs at once.
C4_AtMostOnePending ==
    \A u \in Uid : ~(u \in awaiting_recipe /\ u \in awaiting_question)

\* C5 as stated: a Text event of a recipient awaiting a recipe title is
\* consumed as the title, and afterwards the recipient has no pending input.
C5_RecipeTitleConsumed ==
    (ev.kind = "Text" /\ ev.had_recipe) =>
        /\ ev.fx[1] = E("pop_recipe", "")
        /\ Ops(ev.fx) \cap {"pop_question", "upsert_profile", "gen_answer", "gen_plan"} = {}
        /\ ev.uid \notin awaiting_recipe
        /\ ev.uid \notin awaiting_question

\* C6 as stated: a Text event of a recipient awaiting a question is consumed
\* as the question, and afterwards the recipient has no pending input.
C6_QuestionConsumed ==
    (ev.kind = "Text" /\ ev.had_question) =>
        /\ ev.fx[1] = E("pop_question", "")
        /\ Ops(ev.fx) \cap {"pop_recipe", "upsert_profile", "gen_recipe", "gen_plan"} = {}
        /\ ev.uid \notin awaiting_recipe
        /\ ev.uid \notin awaiting_question

\* C5 and C6 where the recipient has the one pending input only: the text is
\* consumed as that input and no pending input is left.
SinglePendingConsumed ==
    /\ (ev.kind = "Text" /\ ev.had_recipe /\ ~ev.had_question) =>
          /\ ev.fx[1] = E("pop_recipe", "")
          /\ Ops(ev.fx) \cap {"pop_question", "upsert_profile", "gen_answer", "gen_plan"} = {}
          /\ ev.uid \notin awaiting_recipe \cup awaiting_question
    /\ (ev.kind = "Text" /\ ev.had_question /\ ~ev.had_recipe) =>
          /\ ev.fx[1] = E("pop_question", "")
          /\ Ops(ev.fx) \cap {"pop_recipe", "upsert_profile", "gen_recipe", "gen_plan"} = {}
          /\ ev.uid \notin awaiting_recipe \cup awaiting_question

\* The event is a Text event of a recipient with no pending input.
PlainText == ev.kind = "Text" /\ ~ev.had_recipe /\ ~ev.had_question

\* The handler called upsert_user_profile (which wrote, or raised).
UpsertCalled ==
    \E i \in 1..Len(ev.fx) :
        ev.fx[i].op = "upsert_profile" \/ ev.fx[i] = E("raise", "upsert_profile")

\* Index of the first character of s from i on that is in C, 0 when none.
RECURSIVE FirstIndexIn(_, _, _)
FirstIndexIn(s, C, i) ==
    IF i > Len(s) THEN 0
    ELSE IF s[i] \in C THEN i
    ELSE FirstIndexIn(s, C, i + 1)

\* The pieces of s between every character of C.
RECURSIVE SplitAny(_, _)
SplitAny(s, C) ==
    LET k == FirstIndexIn(s, C, 1)
    IN  IF k = 0 THEN <<s>>
        ELSE <<SubSeq(s, 1, k - 1)>> \o SplitAny(SubSeq(s, k + 1, Len(s)), C)

\* The non-empty fields of a text that commas or line breaks separate.
SeparatedFields(txt) == NonEmptyStripped(SplitAny(txt, {",", "\n"}))

\* The non-empty fields of a text that its commas separate when it has a
\* comma, and its line breaks otherwise.
CommaElseLineFields(txt) ==
    NonEmptyStripped(SplitAny(txt, IF HasChar(txt, ",") THEN {","} ELSE {"\n"}))

DigitChar(n) ==
    CASE n = 0 -> "0" [] n = 1 -> "1" [] n = 2 -> "2" [] n = 3 -> "3" [] n = 4 -> "4"
      [] n = 5 -> "5" [] n = 6 -> "6" [] n = 7 -> "7" [] n = 8 -> "8" [] n = 9 -> "9"

\* The decimal numeral of a natural number.
RECURSIVE Numeral(_)
Numeral(n) ==
    IF n < 10 THEN <<DigitChar(n)>> ELSE Numeral(n \div 10) \o <<DigitChar(n % 10)>>

\* The decimal numeral of a number given as whole part and fraction digits.
DecimalText(v) ==
    Numeral(v.whole) \o (IF v.frac = <<>> THEN <<>> ELSE <<".">> \o v.frac)

\* The characters of a field with everything but digits (and dots) taken out.
DigitsIn(f, dots) ==
    SelectSeq(f, LAMBDA c : IsDigit(c) \/ (dots /\ c = "."))

\* d is a numeral written plainly: no leading zero, no trailing zero or
\* bare dot in the fraction.
PlainNumeral(d) ==
    /\ d # <<>> /\ IsDigit(d[1]) /\ IsDigit(d[Len(d)])
    /\ Cardinality({i \in 1..Len(d) : d[i] = "."}) <= 1
    /\ (Len(d) > 1 /\ d[1] = "0") => d[2] = "."
    /\ HasChar(d, ".") => d[Len(d)] # "0"

\* The digits of the four numeric fields of f form numbers.
NumbersIn(f) ==
    /\ DigitsIn(f[2], FALSE) # <<>>
    /\ \A i \in {4, 5, 8} :
          /\ \E j \in 1..Len(f[i]) : IsDigit(f[i][j])
          /\ Cardinality({j \in 1..Len(f[i]) : f[i][j] = "."}) <= 1

\* The profile upserted carries the fields f in order: the four texts as
\* they are, the four numbers as the digits (and dot) of their fields denote.
ProfileCarries(f) ==
    /\ ev.profile.ok
    /\ ev.profile.name = f[1] /\ ev.profile.gender = f[3]
    /\ ev.profile.activity = f[6] /\ ev.profile.diet = f[7]
    /\ PlainNumeral(DigitsIn(f[2], FALSE)) => Numeral(ev.profile.age) = DigitsIn(f[2], FALSE)
    /\ PlainNumeral(DigitsIn(f[4], TRUE))
       => DecimalText(ev.profile.height_cm) = DigitsIn(f[4], TRUE)
    /\ PlainNumeral(DigitsIn(f[5], TRUE))
       => DecimalText(ev.profile.weight_kg) = DigitsIn(f[5], TRUE)
    /\ PlainNumeral(DigitsIn(f[8], TRUE))
       => DecimalText(ev.profile.goal_kg) = DigitsIn(f[8], TRUE)

\* C13 as stated: of a Text event of a recipient with no pending input,
\* with the fields those that commas or line breaks separate: eight fields
\* with numbers in them are upserted in order, and with fewer or more than
\* eight fields no profile is upserted.
C13_EightSeparatedFields ==
    PlainText =>
        LET f == SeparatedFields(MessageText[ev.data])
        IN  /\ (Len(f) = 8 /\ NumbersIn(f)) =>
                  /\ UpsertCalled
                  /\ "upsert_profile" \in Ops(ev.fx) => ProfileCarries(f)
            /\ Len(f) # 8 => ~UpsertCalled

\* C13 amended: the fields are those the commas of the text separate when
\* it has a comma, and those its line breaks separate otherwise.  Eight
\* fields with numbers in them are upserted in order, before anything else
\* is done; with fewer or more than eight fields, or without the numbers,
\* no profile is upserted.
C13_EightCommaElseLineFields ==
    PlainText =>
        LET f == CommaElseLineFields(MessageText[ev.data])
        IN  /\ (Len(f) = 8 /\ NumbersIn(f)) =>
                  /\ UpsertCalled
                  /\ ev.fx[1].op \in {"upsert_profile", "raise"}
                  /\ "upsert_profile" \in Ops(ev.fx) => ProfileCarries(f)
            /\ (Len(f) # 8 \/ ~NumbersIn(f)) => (~UpsertCalled /\ ~ev.profile.ok)

\* C13 witness: the profile of eight lines, with a unit after the age and
\* the height, was upserted.
C13_Witness ==
    /\ PlainText /\ ev.data = "profile_lines"
    /\ ev.profile.ok /\ ev.profile.age = 31
    /\ users[ev.uid] = "named"

\* The places of ev.fx where the content generator is called.
GenCalls == {i \in 1..Len(ev.fx) : ev.fx[i].op \in GenOps}

\* C14: of a Text event of a recipient with no pending input that parses as
\* a profile: the upsert is the first thing done; one call of the content
\* generator follows it, for the plan of "today" and with the row read back
\* after the upsert (none when a call before it raised, never more than one);
\* the plan is saved after the upsert and the generation.
C14_UpsertThenOnePlanForToday ==
    (PlainText /\ TextParses[ev.data]) =>
        /\ ev.fx[1].op \in {"upsert_profile", "raise"}
        /\ Cardinality(GenCalls) <= 1
        /\ "raise" \notin Ops(ev.fx) => Cardinality(GenCalls) = 1
        /\ \A i \in GenCalls :
              /\ ev.fx[i] = E("gen_plan", "today")
              /\ \E j \in 1..(i - 1), g \in 1..(i - 1) :
                    /\ j < g
                    /\ ev.fx[j].op = "upsert_profile"
                    /\ ev.fx[g].op = "get_user"
        /\ \A i \in 1..Len(ev.fx) :
              ev.fx[i].op = "save_plan" =>
                  /\ ev.fx[i].arg = "today"
                  /\ \E j \in 1..(i - 1) : ev.fx[j].op = "upsert_profile"
                  /\ \E g \in GenCalls : g < i

\* C14 witness: the comma-separated profile was upserted, its plan for
\* today generated and saved, and the handler ran through.
C14_Witness ==
    /\ PlainText /\ ev.data = "profile_csv"
    /\ "raise" \notin Ops(ev.fx)
    /\ {"upsert_profile", "gen_plan", "save_plan"} \subseteq Ops(ev.fx)

\* The event is a Text event of a recipient with no pending input whose
\* text does not parse as a profile.
FreeText == PlainText /\ ~TextParses[ev.data]

\* C15: a text with a keyword that is no profile, from a recipient with no
\* pending input whose subscription is not active (or who has no users
\* row): the subscription is looked up, the content generator is not
\* called, and the handler ends with the subscribe prompt.
C15_InactiveQuestionGetsSubscribePrompt ==
    (FreeText /\ TextHasKeyword[ev.data] /\ ev.was # "active") =>
        /\ GenCalls = {}
        /\ "raise" \notin Ops(ev.fx) =>
              /\ ev.fx[Len(ev.fx)] = E("reply", "subscribe_prompt")
              /\ ev.fx[Len(ev.fx) - 1] = is_subscribed(ev.was)
              /\ Cardinality({i \in 1..Len(ev.fx) : ev.fx[i].op = "reply"}) = 1

\* C15 witness: the protein question of a recipient with a users row and
\* an inactive subscription was answered with the subscribe prompt.
C15_Witness ==
    /\ FreeText /\ ev.data = "protein_question" /\ ev.was = "inactive"
    /\ ev.fx[Len(ev.fx)] = E("reply", "subscribe_prompt")

\* C16: a text without a keyword that is no profile, from a recipient with
\* no pending input: the handler sends the on-topic notice and does nothing
\* else, no call of the content generator, no lookup of the user or the
\* subscription.
C16_OffTopicGetsNoticeOnly ==
    (FreeText /\ ~TextHasKeyword[ev.data]) =>
        ev.fx \in { <<E("reply", "on_topic")>>, <<E("raise", "reply")>> }

\* C16 witness: "hello" of a recipient with a profile was answered with the
\* on-topic notice.
C16_Witness ==
    /\ FreeText /\ ev.data = "hello" /\ users[ev.uid] = "named"
    /\ ev.fx = <<E("reply", "on_topic")>>

\* The commands setup_handlers registers a CommandHandler for.
RegisteredCommands == {"start", "menu", "help", "tomorrow", "subscribe"}

\* C17: the step that processes a Command event whose name is not
\* registered runs no handler, makes no call (no message, no raise) and
\* leaves the users table and the pending inputs as they were.
C17_UnknownCommandIgnored ==
    [][ (ev = NoEvent /\ ev'.kind = "Command" /\ ev'.data \notin RegisteredCommands)
        => /\ ev'.handler = "none"
           /\ ev'.fx = <<>>
           /\ UNCHANGED <<users, reminders, awaiting_recipe, awaiting_question>> ]_vars

\* C17 witness: /settings was processed for a recipient with a pending
\* recipe title.
C17_Witness ==
    /\ ev.kind = "Command" /\ ev.data = "settings"
    /\ ev.uid \in awaiting_recipe

\* The event is a CallbackAction whose payload no branch of button_callback
\* takes.
UnknownAction == ev.kind = "CallbackAction" /\ CallbackBranch[ev.data] = "none"

\* C18 as stated: a CallbackAction with an unknown payload is answered
\* with a message to the recipient (unless q.answer() or the lookup of the
\* user raised before the payload was looked at).
C18_UnknownOptionReply ==
    UnknownAction =>
        \/ "raise" \in Ops(ev.fx)
        \/ \E i \in 1..Len(ev.fx) : ev.fx[i].op \in {"reply", "edit", "send"}

\* The event is a recipe|<title> CallbackAction of a subscribed recipient.
SubscribedRecipeAction ==
    /\ ev.kind = "CallbackAction" /\ CallbackBranch[ev.data] = "recipe"
    /\ ev.was = "active"

\* The payload after its prefix "recipe|".
AfterFirstBar(d) == SubSeq(DataChars(d), 8, Len(DataChars(d)))

\* C19 as stated: the recipe requested for a recipe|<title> payload of a
\* subscribed recipient has the title <title>, the text after the first "|".
C19_TitleIsTextAfterBar ==
    SubscribedRecipeAction =>
        \A i \in GenCalls :
            ev.fx[i].op = "gen_recipe" /\ ev.fx[i].title = AfterFirstBar(ev.data)

\* C19 amended: the recipe requested has as title the text after the first
\* "|" with the whitespace around it stripped, a later "|" kept, and "Meal"
\* when nothing is left; one recipe is requested unless a call before it
\* raised.
C19_TitleIsStrippedTextAfterBar ==
    SubscribedRecipeAction =>
        /\ \A i \in GenCalls :
              /\ ev.fx[i].op = "gen_recipe"
              /\ ev.fx[i].title =
                    IF Strip(AfterFirstBar(ev.data)) = <<>> THEN <<"M", "e", "a", "l">>
                    ELSE Strip(AfterFirstBar(ev.data))
        /\ Cardinality(GenCalls) <= 1
        /\ "raise" \notin Ops(ev.fx) => Cardinality(GenCalls) = 1

\* C19 witness: the payload "recipe| a|b " of a subscribed recipient
\* requested the recipe "a|b".
C19_Witness ==
    /\ SubscribedRecipeAction /\ ev.data = "recipe_piped"
    /\ \E i \in GenCalls : ev.fx[i].title = <<"a", "|", "b">>

\* The messages a handler sends from an except branch.
Apologies ==
    { E("reply", "apology"), E("reply", "checkout_error"), E("send", "checkout_error"),
      E("send", "portal_error") }

\* C20 as stated: whatever call of a handler raises, the handler catches
\* it and sends the recipient an apology; nothing is raised out of the handler.
C20_FailuresCaughtWithApology ==
    /\ "raise" \notin Ops(ev.fx)
    /\ "caught" \in Ops(ev.fx) =>
          \E i \in 1..Len(ev.fx) : ev.fx[i] \in Apologies \/ ev.fx[i] = E("caught", "reply")

\* C26: for an event that is a registered command, a callback action or a
\* text that is no command, process_update calls one callback, the one
\* registered for it, and it ran once.
C26_OneHandlerOnce ==
    (/\ ev # NoEvent
     /\ \/ ev.kind \in {"CallbackAction", "Text"}
        \/ ev.kind = "Command" /\ ev.data \in RegisteredCommands)
    => /\ Dispatch[ev.kind][ev.data] = <<ev.handler>>
       /\ ev.handler # "none"
       /\ ev.fx # <<>>

\* C26 witness: a text that is no command went to handle_message, and only
\* to it.
C26_Witness ==
    /\ ev.kind = "Text" /\ ev.handler = "handle_message"
    /\ Dispatch["Text"][ev.data] = <<"handle_message">>
    /\ Dispatch["Command"]["tomorrow"] = <<"tomorrow_command">>

OtherThanTextOrRequest(b) ==
    /\ ev = NoEvent /\ ev'.uid = b
    /\ \/ ev'.kind = "Command"
       \/ ev'.kind = "CallbackAction" /\ CallbackBranch[ev'.data] \notin {"req_recipe", "ask_q"}

\* C31: a pending input of a recipient is cleared by no step but the
\* handling of a Text event of that recipient, which clears the recipe title
\* when one is pending and else the question; a Command, and a CallbackAction
\* other than req_recipe and ask_q, leaves both flags of the recipient as
\* they are, and so does the end of an event.
C31_PendingClearedOnlyByText ==
    [][ \A b \in Uid :
          /\ (b \in awaiting_recipe /\ b \notin awaiting_recipe')
             => (ev = NoEvent /\ ev'.kind = "Text" /\ ev'.uid = b)
          /\ (b \in awaiting_question /\ b \notin awaiting_question')
             => (ev = NoEvent /\ ev'.kind = "Text" /\ ev'.uid = b /\ b \notin awaiting_recipe)
          /\ OtherThanTextOrRequest(b)
             => /\ (b \in awaiting_recipe') <=> (b \in awaiting_recipe)
                /\ (b \in awaiting_question') <=> (b \in awaiting_question)
          /\ (ev = NoEvent /\ ev'.kind = "Text" /\ ev'.uid = b)
             => /\ b \notin awaiting_recipe'
                /\ (b \notin awaiting_recipe /\ b \in awaiting_question)
                   => b \notin awaiting_question' ]_vars

\* C31 witness: a recipient with a pending recipe title has pressed
\* rem_stop, and the title is still pending.
C31_Witness ==
    /\ ev.kind = "CallbackAction" /\ CallbackBranch[ev.data] = "rem_stop"
    /\ ev.had_recipe /\ ev.uid \in awaiting_recipe
    /\ "raise" \notin Ops(ev.fx)

\* C32: a Text event consumed as a pending input pops the flag first,
\* before the lookup of the user, the subscription check, the content call
\* and the reply; whatever follows, a subscription found inactive or a call
\* that raises, the flag is cleared after the event and nothing sets it
\* again; with the subscription not active no content call is made.
C32_PendingClearedBeforeGate ==
    (ev.kind = "Text" /\ (ev.had_recipe \/ ev.had_question)) =>
        /\ ev.fx[1].op = IF ev.had_recipe THEN "pop_recipe" ELSE "pop_question"
        /\ IF ev.had_recipe THEN ev.uid \notin awaiting_recipe
                            ELSE ev.uid \notin awaiting_question
        /\ Ops(ev.fx) \cap {"set_recipe", "set_question"} = {}
        /\ ev.was # "active" => Ops(ev.fx) \cap GenOps = {}

\* C32 witness: the pending question of a recipient whose subscription has
\* lapsed was consumed: the subscribe prompt is the answer and the question
\* is pending no more.
C32_Witness ==
    /\ ev.kind = "Text" /\ ev.had_question /\ ~ev.had_recipe
    /\ ev.was = "inactive"
    /\ ev.fx[Len(ev.fx)] = E("reply", "subscribe_prompt")
    /\ ev.uid \notin awaiting_question

\* The event is the req_recipe or the ask_q action.
PendingRequest ==
    ev.kind = "CallbackAction" /\ CallbackBranch[ev.data] \in {"req_recipe", "ask_q"}

\* C33: a flag is set only after a subscription check of the same event
\* that answered active; req_recipe and ask_q of a recipient whose
\* subscription is not active leave both flags of the recipient as they
\* were, send nothing and, unless a call raised, edit the message into the
\* subscribe prompt.
C33_PendingSetOnlyForSubscriber ==
    /\ \A i \in 1..Len(ev.fx) :
          ev.fx[i].op \in {"set_recipe", "set_question"} => GateOpenBefore(ev.fx, i)
    /\ (PendingRequest /\ ev.was # "active") =>
          /\ (ev.uid \in awaiting_recipe) <=> ev.had_recipe
          /\ (ev.uid \in awaiting_question) <=> ev.had_question
          /\ "send" \notin Ops(ev.fx)
          /\ "raise" \notin Ops(ev.fx) => ev.fx[Len(ev.fx)] = E("edit", "subscribe_prompt")

\* C33 witness: a recipient with a pending recipe title and a lapsed
\* subscription pressed ask_q and got the subscribe prompt.
C33_Witness ==
    /\ PendingRequest /\ CallbackBranch[ev.data] = "ask_q"
    /\ ev.was = "inactive"
    /\ ev.had_recipe /\ ev.uid \in awaiting_recipe /\ ev.uid \notin awaiting_question
    /\ ev.fx[Len(ev.fx)] = E("edit", "subscribe_prompt")

\* What a run of the tomorrow flow decided, read from what it did.
TomorrowDecision(fx) ==
    IF \E i \in 1..Len(fx) : fx[i].arg = "profile_first" THEN "profile_missing"
    ELSE IF \E i \in 1..Len(fx) : fx[i].arg = "subscribe_prompt" THEN "subscribe"
    ELSE IF \E i \in 1..Len(fx) : fx[i] = E("gen_plan", "tomorrow") THEN "plan_tomorrow"
    ELSE "none"

\* The writes to the record store among the effects, in order.
StoreWrites(fx) ==
    SelectSeq(fx, LAMBDA e : e.op \in {"save_plan", "add_history", "upsert_profile",
                                       "set_reminders", "get_or_create_user"})

\* The two flows did the same: the same decision, the profile-missing one
\* without a subscription check, and the same writes, those of a plan for
\* tomorrow when a plan was generated.
SameTomorrowFlow(fx, gx) ==
    /\ TomorrowDecision(fx) = TomorrowDecision(gx)
    /\ TomorrowDecision(fx) # "none"
    /\ TomorrowDecision(fx) = "profile_missing"
       => ("is_subscribed" \notin Ops(fx) /\ "is_subscribed" \notin Ops(gx))
    /\ StoreWrites(fx) = StoreWrites(gx)
    /\ StoreWrites(fx) = IF TomorrowDecision(fx) = "plan_tomorrow"
                           THEN << E("save_plan", "tomorrow"), E("add_history", "") >>
                           ELSE <<>>

\* C34: a /tomorrow that ran through did what the menu_tomorrow action does
\* for the same recipient from the same store state and the same answer of
\* the subscription check, and the other way round.
C34_TomorrowFlowsAgree ==
    /\ (ev.handler = "tomorrow_command" /\ "raise" \notin Ops(ev.fx))
       => SameTomorrowFlow(ev.fx,
                           button_callback(ev.uid, ev.was, "menu_tomorrow", FALSE, 0, FALSE))
    /\ (/\ ev.kind = "CallbackAction" /\ CallbackBranch[ev.data] = "menu_tomorrow"
        /\ "raise" \notin Ops(ev.fx))
       => SameTomorrowFlow(ev.fx, tomorrow_command(ev.uid, ev.was))

\* C34 witness: the menu_tomorrow action generated, saved and sent the
\* plan for tomorrow.
C34_Witness ==
    /\ ev.kind = "CallbackAction" /\ CallbackBranch[ev.data] = "menu_tomorrow"
    /\ StoreWrites(ev.fx) = << E("save_plan", "tomorrow"), E("add_history", "") >>
    /\ ev.fx[Len(ev.fx)] = E("send", "plan")


\* ----------------------------------------------------- SpecFlight: the steps

\* The handlers of different requests interleave where one blocks: a
\* request is a greenlet, and between two blocking calls (a call on the
\* record store, the content generator or the Telegram API) a handler runs
\* without another one running.

\* A handler that tests its flag and blocks before it pops it.
handle_message_reads_only(e, u) ==
    /\ flight[e].pc = "idle"
    /\ flight' = [flight EXCEPT ![e] =
                    [kind |-> "Text", uid |-> u, data |-> "", pc |-> "blocked",
                     took |-> IF u \in awaiting_recipe THEN "recipe"
                              ELSE IF u \in awaiting_question THEN "question"
                              ELSE "none"]]
    /\ UNCHANGED <<users, reminders, awaiting_recipe, awaiting_question, ev,
                   schedVars, appVars>>

\* handle_message from its start to its first blocking call: the test of
\* awaiting_recipe and its pop, else the test of awaiting_question and its
\* pop, else parse_profile_input; then get_user or upsert_user_profile.
handle_message_reads(e, u) ==
    LET took == IF u \in awaiting_recipe THEN "recipe"
                ELSE IF u \in awaiting_question THEN "question"
                ELSE "none"
    IN  /\ flight[e].pc = "idle"
        /\ awaiting_recipe' =
             IF took = "recipe" THEN awaiting_recipe \ {u} ELSE awaiting_recipe
        /\ awaiting_question' =
             IF took = "question" THEN awaiting_question \ {u} ELSE awaiting_question
        /\ flight' = [flight EXCEPT ![e] =
                        [kind |-> "Text", uid |-> u, data |-> "", pc |-> "blocked",
                         took |-> took]]
        /\ UNCHANGED <<users, reminders, ev, schedVars, appVars>>

\* handle_message goes through its remaining calls and returns.
handle_message_returns(e) ==
    /\ flight[e].kind = "Text"
    /\ flight' = [flight EXCEPT ![e] = NoFlight]
    /\ UNCHANGED <<users, reminders, awaiting_recipe, awaiting_question, ev,
                   schedVars, appVars>>

\* button_callback for req_recipe or ask_q, to its first blocking call,
\* q.answer().
button_callback_enters(e, u, d) ==
    /\ flight[e].pc = "idle"
    /\ flight' = [flight EXCEPT ![e] =
                    [kind |-> "CallbackAction", uid |-> u, data |-> d,
                     pc |-> "blocked", took |-> "none"]]
    /\ UNCHANGED <<users, reminders, awaiting_recipe, awaiting_question, ev,
                   schedVars, appVars>>

\* button_callback after q.answer(), get_user and the subscription check
\* have come back: the flag is set for a subscriber, and the handler sends
\* its message and returns.
button_callback_sets(e, active) ==
    LET u == flight[e].uid
        d == flight[e].data
    IN  /\ flight[e].kind = "CallbackAction"
        /\ active => users[u] # "absent"
        /\ awaiting_recipe' =
             IF active /\ d = "req_recipe" THEN awaiting_recipe \cup {u}
             ELSE awaiting_recipe
        /\ awaiting_question' =
             IF active /\ d = "ask_q" THEN awaiting_question \cup {u}
             ELSE awaiting_question
        /\ flight' = [flight EXCEPT ![e] = NoFlight]
        /\ UNCHANGED <<users, reminders, ev, schedVars, appVars>>

TextInFlight == \E e \in Req, u \in Uid : handle_message_reads(e, u)

TextReturns == \E e \in Req : handle_message_returns(e)

ButtonInFlight ==
    \E e \in Req, u \in Uid, d \in {"req_recipe", "ask_q"} : button_callback_enters(e, u, d)

ButtonSets == \E e \in Req, active \in BOOLEAN : button_callback_sets(e, active)

NextFlight == TextInFlight \/ TextReturns \/ ButtonInFlight \/ ButtonSets

\* The handlers in flight read of the users table only whether the
\* recipient has a row: the table starts with any set of named rows.
InitFlight ==
    /\ users \in [Uid -> {"absent", "named"}]
    /\ reminders = [u \in Uid |-> FALSE]
    /\ BotInit /\ SchedStarted /\ AppStarted

SpecFlight == InitFlight /\ [][NextFlight]_vars

\* ------------------------------------------------ SpecFlight: properties

JobKind(j) ==
    CASE j = "daily_plan" -> "daily"
      [] j = "reminder_breakfast" -> "breakfast"
      [] j = "reminder_hydration_morning" -> "hydration"
      [] j = "reminder_lunch" -> "lunch"
      [] j = "reminder_hydration_afternoon" -> "hydration"
      [] j = "reminder_dinner" -> "dinner"

\* add_job is called without max_instances: the scheduler's default applies.
max_instances == 1

\* An executor that runs every due job.
CanStartOverlapping(j) == TRUE

\* The executor runs a due job only below max_instances executions of it.
CanStart(j) == instances[j] < max_instances

RECURSIVE RowsFrom(_, _)
\* The rows of the uids of S from u on, in table order.
RowsFrom(u, S) ==
    IF u > NumUsers THEN <<>>
    ELSE (IF u \in S THEN <<[uid |-> u, named |-> users[u] = "named"]>> ELSE <<>>)
         \o RowsFrom(u + 1, S)

\* Database.get_all_users: select * from users.
get_all_users ==
    RowsFrom(1, {u \in Uid : users[u] # "absent"})

\* A query that returns the telegram ids of all rows.
get_users_with_reminders_unfiltered ==
    LET rows == RowsFrom(1, {u \in Uid : users[u] # "absent"})
    IN  [i \in 1..Len(rows) |-> [uid |-> rows[i].uid, named |-> FALSE]]

\* Database.get_users_with_reminders: the telegram ids with reminders = True.
get_users_with_reminders ==
    LET rows == RowsFrom(1, {u \in Uid : users[u] # "absent" /\ reminders[u]})
    IN  [i \in 1..Len(rows) |-> [uid |-> rows[i].uid, named |-> FALSE]]

\* call_openai answers with the API's text, or with "Error: ..." when the
\* API call raised; generate_plan_json returns the parsed answer when it is
\* JSON with a meals key and the static plan otherwise.
generate_plan_json(gen) ==
    << E("call_openai", gen),
       E("gen_plan", IF gen = "plan_json" THEN "generated" ELSE "fallback") >>

GenOutcomes == {"plan_json", "not_json", "api_error"}

\* The delivery to one recipient: a new event loop is made and set as the
\* current one, runs bot.send_message to completion and is closed.
Deliver(what) ==
    << E("new_event_loop", ""), E("send", what), E("loop_close", "") >>

\* An inner try that delivers the plan before it stores it.
DailyBodyDeliverFirst(gen) ==
    <<E("recent_meals", "")>> \o generate_plan_json(gen) \o Deliver("plan") \o
    << E("save_plan", "today"), E("add_history", "") >>

\* send_daily_plan, the body of the inner try for one user.
DailyBody(gen) ==
    <<E("recent_meals", "")>> \o generate_plan_json(gen) \o
    << E("save_plan", "today"), E("add_history", "") >> \o Deliver("plan")

\* send_daily_plan, one pass of the loop for the row of the snapshot:
\* subscription check, name check, inner try.
DailyIteration(row, active, gen) ==
    <<E("has_active_subscription", IF active THEN "active" ELSE "inactive")>> \o
    (IF active /\ row.named THEN DailyBody(gen) ELSE <<>>)

\* A pass of send_reminder that goes on whatever the subscription check says.
ReminderIterationUngated(active, kind) ==
    <<E("has_active_subscription", IF active THEN "active" ELSE "inactive")>> \o
    <<E("get_user", "")>> \o Deliver(kind)

\* send_reminder, one pass of the loop: subscription check, get_user, and
\* the inner try that sends the text of the kind.
ReminderIteration(active, kind) ==
    <<E("has_active_subscription", IF active THEN "active" ELSE "inactive")>> \o
    (IF active THEN <<E("get_user", "")>> \o Deliver(kind) ELSE <<>>)

\* The place in a pass where its inner try begins.
TryFrom(kind) == IF kind = "daily" THEN 2 ELSE 3

\* The calls of a pass that can raise (call_openai catches its own).
SchedFaultable(e) ==
    e.op \in {"has_active_subscription", "get_user", "recent_meals",
              "save_plan", "add_history", "send"}

\* A pass whose inner try goes on after the statement that raised.
InnerTryResume(T, k) ==
    SubSeq(T, 1, k - 1) \o <<E("caught", T[k].op)>> \o SubSeq(T, k + 1, Len(T))

\* The inner try when the k-th call raises: except Exception logs, and the
\* loop goes to the next user.
InnerTry(T, k) == SubSeq(T, 1, k - 1) \o <<E("caught", T[k].op)>>

\* What a pass does when its k-th call raises (k = 0: none does): before
\* the inner try the exception leaves the loop.
IterationFx(T, k, from) ==
    IF k = 0 THEN T
    ELSE IF k < from THEN Cut(T, k)
    ELSE InnerTry(T, k)

\* What the pass leaves in the run's record; eligible: the subscription
\* check answered active and the row has a name (daily plan).
Outcome(u, eligible, fx) ==
    [ uid |-> u,
      eligible |-> eligible /\ "has_active_subscription" \in Ops(fx),
      aborted |-> "raise" \in Ops(fx),
      raised |-> "caught" \in Ops(fx),
      delivered |-> "send" \in Ops(fx),
      generr |-> E("call_openai", "api_error") \in {fx[i] : i \in 1..Len(fx)},
      senderr |-> E("caught", "send") \in {fx[i] : i \in 1..Len(fx)} ]

\* ---------------------------------------------------- SpecSched: the steps

Running == {j \in JobIds : instances[j] > 0}

\* The trigger of job j fires and the executor starts its function, which
\* reads its recipients first; a raise of that read ends the function in
\* its outer except.
FireStart(j, dbfail) ==
    /\ j \in jobs
    /\ CanStart(j)
    /\ Cardinality(Running \ {j}) < MaxRunning
    /\ instances' = [instances EXCEPT ![j] = @ + 1]
    /\ run' = [run EXCEPT ![j] =
                 IF dbfail THEN [phase |-> "returned", snap |-> <<>>, log |-> <<>>]
                 ELSE [phase |-> "running",
                       snap |-> IF JobKind(j) = "daily" THEN get_all_users
                                ELSE get_users_with_reminders,
                       log |-> <<>>]]
    /\ it' = [kind |-> "start", job |-> j, uid |-> 0,
              fx |-> IF dbfail THEN <<E("raise", "snapshot")>> ELSE <<>>]
    /\ UNCHANGED <<botVars, jobs, appVars>>

\* The trigger of job j fires while max_instances executions of it are in
\* progress: the executor refuses the run.
FireSkipped(j) ==
    /\ j \in jobs
    /\ ~CanStart(j)
    /\ it' = [kind |-> "skipped", job |-> j, uid |-> 0, fx |-> <<>>]
    /\ UNCHANGED <<botVars, jobs, run, instances, appVars>>

\* One pass of the loop of job j, for the next row of its snapshot.
Iterate(j, active, gen, k) ==
    LET r == run[j]
        row == r.snap[Len(r.log) + 1]
        kind == JobKind(j)
        T == IF kind = "daily" THEN DailyIteration(row, active, gen)
             ELSE ReminderIteration(active, kind)
        fx == IterationFx(T, k, TryFrom(kind))
        out == Outcome(row.uid, Len(T) > 1 /\ kind = "daily", fx)
    IN  /\ r.phase = "running"
        /\ Len(r.log) < Len(r.snap)
        /\ k \in 0..Len(T)
        /\ k # 0 => SchedFaultable(T[k])
        /\ gen # "plan_json" => "call_openai" \in Ops(fx)
        /\ active => "has_active_subscription" \in Ops(fx)
        /\ run' = [run EXCEPT ![j] =
                     [phase |-> IF out.aborted THEN "returned" ELSE "running",
                      snap |-> r.snap,
                      log |-> Append(r.log, out)]]
        /\ it' = [kind |-> "iterate", job |-> j, uid |-> row.uid, fx |-> fx]
        /\ UNCHANGED <<botVars, jobs, instances, appVars>>

\* The loop of job j is through its snapshot: the function returns.
Return(j) ==
    /\ run[j].phase = "running"
    /\ Len(run[j].log) = Len(run[j].snap)
    /\ run' = [run EXCEPT ![j].phase = "returned"]
    /\ it' = [kind |-> "return", job |-> j, uid |-> 0, fx |-> <<>>]
    /\ UNCHANGED <<botVars, jobs, instances, appVars>>

\* The executor takes note that the function of job j has returned.
Release(j) ==
    /\ run[j].phase = "returned"
    /\ run' = [run EXCEPT ![j] = IdleRun]
    /\ instances' = [instances EXCEPT ![j] = @ - 1]
    /\ it' = [kind |-> "release", job |-> j, uid |-> 0, fx |-> <<>>]
    /\ UNCHANGED <<botVars, jobs, appVars>>

\* A handler running beside the jobs writes the users table:
\* get_or_create_user inserts the row, upsert_user_profile names it and
\* set_reminders sets the column of an existing row.
StoreWrite(u) ==
    /\ \/ /\ users[u] = "absent"
          /\ users' = [users EXCEPT ![u] = "row"]
          /\ UNCHANGED reminders
       \/ /\ users[u] # "named"
          /\ users' = [users EXCEPT ![u] = "named"]
          /\ UNCHANGED reminders
       \/ /\ users[u] # "absent"
          /\ reminders' = [reminders EXCEPT ![u] = ~@]
          /\ UNCHANGED users
    /\ it' = NoStep
    /\ UNCHANGED <<awaiting_recipe, awaiting_question, ev, flight, jobs, run, instances, appVars>>

Fire == \E j \in JobIds : FireSkipped(j) \/ \E dbfail \in BOOLEAN : FireStart(j, dbfail)

Pass ==
    \E j \in JobIds :
        /\ run[j].phase = "running"
        /\ \E active \in BOOLEAN, gen \in GenOutcomes, k \in 0..Len(DailyBody("plan_json")) + 1 :
              Iterate(j, active, gen, k)

Finish == \E j \in JobIds : Return(j) \/ Release(j)

HandlerWrites == \E u \in Uid : StoreWrite(u)

InitSched == StoreInit /\ BotInit /\ SchedStarted /\ AppStarted

NextSched == Fire \/ Pass \/ Finish \/ HandlerWrites

SpecSched == InitSched /\ [][NextSched]_vars


\* ---------------------------------------------------- SpecSched: properties

\* The number of entries of a run's log that satisfy P.
Count(log, P(_)) == Cardinality({i \in 1..Len(log) : P(log[i])})

IsEligible(e) == e.eligible

IsRaised(e) == e.raised

IsDelivered(e) == e.delivered

\* The entry's content generation met an API error, or its delivery raised.
GenOrSendError(e) == e.eligible /\ (e.generr \/ e.senderr)

\* C7 as stated: a run that has returned has processed every recipient of
\* its snapshot, whatever was raised while one of them was processed.
C7_FailureIsolated ==
    \A j \in JobIds :
        run[j].phase = "returned" => Len(run[j].log) = Len(run[j].snap)

\* C8 as stated: a daily run that has returned, over N eligible recipients
\* of which M < N met an error during content generation or delivery, has
\* delivered to exactly N - M.
C8_DeliveredLessGenOrSendErrors ==
    LET r == run["daily_plan"]
        N == Count(r.log, IsEligible)
        M == Count(r.log, GenOrSendError)
    IN  (r.phase = "returned" /\ M < N) => Count(r.log, IsDelivered) = N - M

\* C8 amended: in a daily run, with N the recipients found eligible and M
\* those of them whose pass raised inside the inner try (recent meals,
\* persistence, history, delivery), exactly N - M are delivered; an API error
\* of the content generator raises nothing, the recipient gets the static
\* plan; a raise before the inner try ends the run, which returns.
C8_DeliveredLessRaised ==
    LET r == run["daily_plan"]
    IN  /\ Count(r.log, IsDelivered) = Count(r.log, IsEligible) - Count(r.log, IsRaised)
        /\ \A i \in 1..Len(r.log) :
              /\ r.log[i].raised => r.log[i].eligible
              /\ (r.log[i].generr /\ ~r.log[i].raised) => r.log[i].delivered
              /\ r.log[i].aborted => (r.phase = "returned" /\ i = Len(r.log))

\* C8 witness: a daily run has returned in which one recipient got the
\* static plan after an API error and the pass of another raised.
C8_Witness ==
    LET r == run["daily_plan"]
    IN  /\ r.phase = "returned"
        /\ \E i, k \in 1..Len(r.log) :
              /\ r.log[i].generr /\ r.log[i].delivered
              /\ r.log[k].raised

\* C9: no job has two executions in progress, and a firing that is skipped
\* does nothing.
C9_NoOverlap ==
    /\ \A j \in JobIds :
          /\ instances[j] <= 1
          /\ instances[j] = 1 <=> run[j].phase # "idle"
    /\ it.kind = "skipped" => (it.fx = <<>> /\ instances[it.job] = 1)

\* C9 witness: a job fired while its run was in its loop, and was skipped.
C9_Witness ==
    /\ it.kind = "skipped"
    /\ run[it.job].phase = "running"
    /\ Len(run[it.job].log) < Len(run[it.job].snap)

\* The recipients of a snapshot.
SnapUids(snap) == {snap[i].uid : i \in 1..Len(snap)}

\* The loop of a run walks its snapshot in order: the passes made so far are
\* those of the first rows of the snapshot, one pass each, no row of the
\* snapshot names a recipient twice, and every pass is for a recipient of
\* the snapshot, whatever was written to the users table since.
SnapshotWalkedInOrder ==
    /\ \A j \in JobIds :
          LET r == run[j]
          IN  /\ Len(r.log) <= Len(r.snap)
              /\ \A i \in 1..Len(r.log) : r.log[i].uid = r.snap[i].uid
              /\ \A i, k \in 1..Len(r.snap) : r.snap[i].uid = r.snap[k].uid => i = k
    /\ it.kind = "iterate" => it.uid \in SnapUids(run[it.job].snap)

\* C21 as stated: a run works on the snapshot read at its start, a recipient
\* that was not in it gets no pass, and in a run that has returned every
\* recipient of the snapshot has had exactly one pass.
C21_SnapshotVisitedOnce ==
    /\ SnapshotWalkedInOrder
    /\ \A j \in JobIds :
          LET r == run[j]
          IN  r.phase = "returned" =>
                \A u \in SnapUids(r.snap) :
                    Cardinality({i \in 1..Len(r.log) : r.log[i].uid = u}) = 1

\* What a pass of the daily plan does for a recipient it does not skip.
DailyOps ==
    {"recent_meals", "call_openai", "gen_plan", "save_plan", "add_history",
     "new_event_loop", "send", "loop_close"}

\* The pass of a daily run just made: a recipient whose subscription check
\* did not answer active, or whose row of the snapshot has no name, gets no
\* content call, no plan and no message; any other gets all three unless a
\* call of its inner try raised.
DailyGate ==
    (it.kind = "iterate" /\ JobKind(it.job) = "daily") =>
        LET r == run[it.job]
            out == r.log[Len(r.log)]
            ops == Ops(it.fx)
        IN  /\ out.uid = it.uid
            /\ ~out.eligible => ops \cap DailyOps = {}
            /\ (out.eligible /\ ~out.raised) =>
                  {"call_openai", "gen_plan", "save_plan", "send"} \subseteq ops

\* C22 as stated: in a daily run a recipient found inactive or without a
\* name is skipped, and every other recipient of the snapshot gets a content
\* call, a persisted plan and a delivery attempt: in a run that has returned
\* every named recipient of the snapshot has had its pass.
C22_SkippedOrServed ==
    /\ DailyGate
    /\ LET r == run["daily_plan"]
       IN  r.phase = "returned" =>
             \A i \in 1..Len(r.snap) :
                 r.snap[i].named =>
                     /\ i <= Len(r.log)
                     /\ ~r.log[i].aborted
                     /\ (r.log[i].eligible /\ ~r.log[i].raised) => r.log[i].delivered

C35_PersistedBeforeDelivery ==
    (it.kind = "iterate" /\ JobKind(it.job) = "daily") =>
        LET fx == it.fx
            r == run[it.job]
            out == r.log[Len(r.log)]
        IN  /\ \A i \in 1..Len(fx) :
                  (fx[i].op \in {"new_event_loop", "send"} \/ fx[i] = E("caught", "send"))
                  => \E g, a, b \in 1..(i - 1) :
                        /\ g < a /\ a < b
                        /\ fx[g].op = "gen_plan"
                        /\ fx[a] = E("save_plan", "today")
                        /\ fx[b].op = "add_history"
            /\ E("caught", "send") \in {fx[i] : i \in 1..Len(fx)}
               => /\ fx[Len(fx)] = E("caught", "send")
                  /\ {"save_plan", "add_history"} \subseteq Ops(fx)
                  /\ out.eligible /\ out.senderr /\ ~out.delivered

\* C35 witness: the delivery of a daily plan raised after the plan was
\* saved, and the run went on.
C35_Witness ==
    /\ it.kind = "iterate" /\ JobKind(it.job) = "daily"
    /\ it.fx[Len(it.fx)] = E("caught", "send")
    /\ "save_plan" \in Ops(it.fx)
    /\ run[it.job].phase = "running"

\* C23: a pass of a reminder run that goes past its subscription check,
\* to the lookup of the user or to the delivery, is one whose check answered
\* active; a pass whose check answered inactive does nothing else.
C23_NoReminderToInactive ==
    (it.kind = "iterate" /\ JobKind(it.job) # "daily") =>
        /\ Len(it.fx) > 1 => it.fx[1] = E("has_active_subscription", "active")
        /\ Ops(it.fx) \cap {"send", "new_event_loop"} # {} =>
              it.fx[1] = E("has_active_subscription", "active")
        /\ it.fx[1] = E("has_active_subscription", "inactive") => Len(it.fx) = 1

\* C23 witness: a reminder run delivered to one recipient and has just
\* skipped another, whose subscription is inactive.
C23_Witness ==
    /\ it.kind = "iterate" /\ JobKind(it.job) # "daily"
    /\ it.fx = <<E("has_active_subscription", "inactive")>>
    /\ \E i \in 1..Len(run[it.job].log) : run[it.job].log[i].delivered

\* ------------------------------------------------- SpecReminders: the steps

\* The recipients press rem_start and rem_stop while the scheduler runs
\* its jobs.
ReminderButton ==
    /\ ev = NoEvent
    /\ \E u \in Uid, d \in {"rem_start", "rem_stop"} :
          HandleEvent(u, "CallbackAction", d, FALSE, FALSE)

NextReminders == ReminderButton \/ EventDone \/ Fire \/ Pass \/ Finish

SpecReminders == InitSched /\ [][NextReminders]_vars

\* -------------------------------------------- SpecReminders: properties

\* The step handled a rem_start or rem_stop action.
ReminderButtonHandled ==
    /\ ev = NoEvent /\ ev'.kind = "CallbackAction"
    /\ CallbackBranch[ev'.data] \in {"rem_start", "rem_stop"}

\* C36: a reminder run that starts takes for its recipients the rows whose
\* reminders flag is set at that moment, a daily run all rows, and a pass of
\* a run is for a recipient of its snapshot; the flag of a recipient is
\* written by the rem_start and rem_stop actions of that recipient only, to
\* on and to off whatever it was before, and these actions leave the pending
\* inputs as they are.
C36_ReminderFlagGatesReminderRuns ==
    [][ /\ \A j \in JobIds :
              (run[j].phase = "idle" /\ run'[j].phase = "running") =>
                  SnapUids(run'[j].snap) =
                      IF JobKind(j) = "daily" THEN {u \in Uid : users[u] # "absent"}
                      ELSE {u \in Uid : users[u] # "absent" /\ reminders[u]}
        /\ (it' # it /\ it'.kind = "iterate") => it'.uid \in SnapUids(run[it'.job].snap)
        /\ \A u \in Uid :
              reminders'[u] # reminders[u] => (ReminderButtonHandled /\ ev'.uid = u)
        /\ ReminderButtonHandled =>
              /\ UNCHANGED <<awaiting_recipe, awaiting_question, users>>
              /\ ("set_reminders" \in Ops(ev'.fx) /\ users[ev'.uid] # "absent")
                 => reminders'[ev'.uid] = (CallbackBranch[ev'.data] = "rem_start") ]_vars

\* C36 witness: a recipient with a row has pressed rem_stop, and a reminder
\* run has started over a snapshot that holds another recipient and not
\* this one.
C36_Witness ==
    /\ ev.kind = "CallbackAction" /\ CallbackBranch[ev.data] = "rem_stop"
    /\ "set_reminders" \in Ops(ev.fx)
    /\ users[ev.uid] # "absent" /\ ~reminders[ev.uid]
    /\ it.kind = "start" /\ JobKind(it.job) # "daily"
    /\ run[it.job].phase = "running"
    /\ run[it.job].snap # <<>>
    /\ ev.uid \notin SnapUids(run[it.job].snap)


\* ------------------------------------------------------------------ app.py

Routes == {"/", "/health", "/webhook"}

\* The bodies of a POST /webhook: an update Telegram sends; text that is not
\* JSON; the empty object; an object without update_id.
Bodies == {"update", "not_json", "empty", "no_update_id"}

\* request.get_json(force=True): the parsed body, or BadRequest raised.
get_json(body) == IF body = "not_json" THEN "raise" ELSE body

\* Update.de_json(data, bot): None for empty data, TypeError raised when a
\* required field is missing.
de_json(data) ==
    CASE data = "empty" -> "None"
      [] data = "no_update_id" -> "raise"
      [] OTHER -> "Update"

\* A view that hands every body on.
ParseUpdateLenient(body) == "Update"

\* telegram_webhook up to the call of process_update: get_json, de_json and
\* update.to_dict(), which raises AttributeError on None.
ParseUpdate(body) ==
    IF get_json(body) = "raise" THEN "raise"
    ELSE IF de_json(get_json(body)) = "Update" THEN "Update"
    ELSE "raise"

\* ------------------------------------------------------ SpecApp: the steps

\* Steps of different requests interleave where the code blocks: gevent
\* has patched the standard library, a request is a greenlet.

\* A request comes in.
Arrive(r, route, body) ==
    /\ req[r].pc = "idle"
    /\ (route = "/webhook") <=> (body # "")
    /\ req' = [req EXCEPT ![r] = [route |-> route, body |-> body, pc |-> "hook",
                                  handler |-> "none", resp |-> 0]]
    /\ UNCHANGED <<botVars, schedVars, bot_initialized, bot_ready, initc, loops>>

\* A hook that leaves the attribute unset.
initialize_bot_once_unmarked(r) ==
    /\ req[r].pc = "hook"
    /\ IF ~bot_initialized
         THEN /\ initc' = [initc EXCEPT !.entered = @ + 1]
              /\ loops' = loops \cup {StartupLoop}
              /\ req' = [req EXCEPT ![r].pc = "initialize"]
         ELSE /\ req' = [req EXCEPT ![r].pc = "view"]
              /\ UNCHANGED <<initc, loops>>
    /\ UNCHANGED <<botVars, schedVars, bot_initialized, bot_ready>>

\* The before_request hook: test and set of app._bot_initialized, with no
\* blocking call between the two, and the new event loop of the
\* initialisation.
initialize_bot_once(r) ==
    /\ req[r].pc = "hook"
    /\ IF ~bot_initialized
         THEN /\ bot_initialized' = TRUE
              /\ initc' = [initc EXCEPT !.entered = @ + 1]
              /\ loops' = loops \cup {StartupLoop}
              /\ req' = [req EXCEPT ![r].pc = "initialize"]
         ELSE /\ req' = [req EXCEPT ![r].pc = "view"]
              /\ UNCHANGED <<bot_initialized, initc, loops>>
    /\ UNCHANGED <<botVars, schedVars, bot_ready>>

\* The except branch of the hook: the failure is logged and the request
\* goes on to its view.
InitFailed(r) ==
    /\ initc' = [initc EXCEPT !.failed = TRUE, !.done = TRUE]
    /\ req' = [req EXCEPT ![r].pc = "view"]

\* loop.run_until_complete(telegram_bot.initialize())
InitializeBot(r, ok) ==
    /\ req[r].pc = "initialize"
    /\ IF ok
         THEN /\ bot_ready' = TRUE
              /\ initc' = [initc EXCEPT !.initialize = @ + 1]
              /\ req' = [req EXCEPT ![r].pc = "set_webhook"]
         ELSE /\ InitFailed(r)
              /\ UNCHANGED bot_ready
    /\ UNCHANGED <<botVars, schedVars, bot_initialized, loops>>

\* A registration whose failure is noted while the initialisation goes on
\* to the scheduler.
SetWebhookGoesOn(r, ok) ==
    /\ req[r].pc = "set_webhook"
    /\ initc' = IF ok THEN [initc EXCEPT !.set_webhook = @ + 1]
                ELSE [initc EXCEPT !.failed = TRUE]
    /\ req' = [req EXCEPT ![r].pc = "start"]
    /\ UNCHANGED <<botVars, schedVars, bot_initialized, bot_ready, loops>>

\* loop.run_until_complete(bot.set_webhook(webhook_url))
SetWebhook(r, ok) ==
    /\ req[r].pc = "set_webhook"
    /\ IF ok
         THEN /\ initc' = [initc EXCEPT !.set_webhook = @ + 1]
              /\ req' = [req EXCEPT ![r].pc = "start"]
         ELSE InitFailed(r)
    /\ UNCHANGED <<botVars, schedVars, bot_initialized, bot_ready, loops>>

\* scheduler.start(): the six add_job calls and the start of the scheduler.
SchedulerStart(r, ok) ==
    /\ req[r].pc = "start"
    /\ IF ok
         THEN /\ jobs' = JobIds
              /\ initc' = [initc EXCEPT !.start = @ + 1, !.done = TRUE]
              /\ req' = [req EXCEPT ![r].pc = "view"]
         ELSE /\ InitFailed(r)
              /\ UNCHANGED jobs
    /\ UNCHANGED <<botVars, run, instances, it, bot_initialized, bot_ready, loops>>

\* index and health_check: the constant body, 200.
StatusView(r) ==
    /\ req[r].pc = "view"
    /\ req[r].route \in {"/", "/health"}
    /\ req' = [req EXCEPT ![r].pc = "done", ![r].resp = 200]
    /\ UNCHANGED <<botVars, schedVars, bot_initialized, bot_ready, initc, loops>>

\* telegram_webhook: the update is parsed and asyncio.run, on a new event
\* loop of its own, starts process_update; a raise of the parsing is answered
\* "ERROR", 500.  Application.process_update begins with a check that
\* Application.initialize has run and raises RuntimeError when it has not:
\* asyncio.run closes its loop and the view's except answers.
telegram_webhook(r) ==
    /\ req[r].pc = "view"
    /\ req[r].route = "/webhook"
    /\ IF ParseUpdate(req[r].body) # "Update"
         THEN /\ req' = [req EXCEPT ![r].pc = "done", ![r].resp = 500]
              /\ UNCHANGED loops
         ELSE IF ~bot_ready
         THEN /\ req' = [req EXCEPT ![r].pc = "processed", ![r].handler = "raised"]
              /\ UNCHANGED loops
         ELSE /\ req' = [req EXCEPT ![r].pc = "processing", ![r].handler = "running"]
              /\ loops' = loops \cup {RunLoop(r)}
    /\ UNCHANGED <<botVars, schedVars, bot_initialized, bot_ready, initc>>

\* asyncio.run(process_update(update)) comes back: the handlers of the
\* update are through, or it raised; its loop is closed.
ProcessUpdate(r, ok) ==
    /\ req[r].pc = "processing"
    /\ req' = [req EXCEPT ![r].pc = "processed",
                          ![r].handler = IF ok THEN "returned" ELSE "raised"]
    /\ loops' = loops \ {RunLoop(r)}
    /\ UNCHANGED <<botVars, schedVars, bot_initialized, bot_ready, initc>>

\* A view that answers as soon as the update is handed over.
WebhookReturnEarly(r) ==
    /\ req[r].pc \in {"processing", "processed"}
    /\ req' = [req EXCEPT ![r].pc = "done",
                          ![r].resp = IF req[r].handler = "raised" THEN 500 ELSE 200]
    /\ UNCHANGED <<botVars, schedVars, bot_initialized, bot_ready, initc, loops>>

\* return "OK", 200 after asyncio.run, or "ERROR", 500 from the except.
WebhookReturn(r) ==
    /\ req[r].pc = "processed"
    /\ req' = [req EXCEPT ![r].pc = "done",
                          ![r].resp = IF req[r].handler = "raised" THEN 500 ELSE 200]
    /\ UNCHANGED <<botVars, schedVars, bot_initialized, bot_ready, initc, loops>>

Request == \E r \in Req, route \in Routes, body \in Bodies \cup {""} : Arrive(r, route, body)

Hook == \E r \in Req : initialize_bot_once(r)

Initialization ==
    \E r \in Req, ok \in BOOLEAN :
        InitializeBot(r, ok) \/ SetWebhook(r, ok) \/ SchedulerStart(r, ok)

View == \E r \in Req : StatusView(r) \/ telegram_webhook(r)

Processing == \E r \in Req : (\E ok \in BOOLEAN : ProcessUpdate(r, ok)) \/ WebhookReturn(r)

\* The module is imported: the components are constructed, nothing is
\* initialised and no job is added.  The steps of SpecApp neither read nor
\* write the users table, which is taken empty.
InitApp ==
    /\ users = [u \in Uid |-> "absent"]
    /\ reminders = [u \in Uid |-> FALSE]
    /\ BotInit
    /\ jobs = {}
    /\ run = [j \in JobIds |-> IdleRun]
    /\ instances = [j \in JobIds |-> 0]
    /\ it = NoStep
    /\ bot_initialized = FALSE
    /\ bot_ready = FALSE
    /\ initc = [entered |-> 0, initialize |-> 0, set_webhook |-> 0, start |-> 0,
                failed |-> FALSE, done |-> FALSE]
    /\ req = [r \in Req |-> NoRequest]
    /\ loops = {}

NextApp == Request \/ Hook \/ Initialization \/ View \/ Processing

SpecApp == InitApp /\ [][NextApp]_vars

\* ------------------------------------------------------ SpecApp: properties

Webhooks == {r \in Req : req[r].route = "/webhook"}

C10_InitializedOnce ==
    /\ initc.entered <= 1
    /\ initc.initialize <= 1 /\ initc.set_webhook <= 1 /\ initc.start <= 1
    /\ (\E r \in Req : req[r].pc \notin {"idle", "hook"}) => initc.entered = 1
    /\ bot_initialized <=> initc.entered = 1
    /\ (initc.done /\ ~initc.failed)
       => (initc.initialize = 1 /\ initc.set_webhook = 1 /\ initc.start = 1)

\* C10 witness: while the first request is inside the initialisation, a
\* second one has passed the hook.
C10_Witness ==
    \E r, q \in Req :
        /\ r # q
        /\ req[r].pc \in {"initialize", "set_webhook", "start"}
        /\ req[q].pc \notin {"idle", "hook"}

\* C11 as stated: the event loop made at startup is the only one there is;
\* no webhook call has a loop of its own open.
C11_SingleEventLoop == loops \subseteq {StartupLoop}

\* C12 as stated: the handlers run for a webhook update only once the
\* initialisation has completed.
C12_NoUpdateBeforeInitDone ==
    \A r \in Webhooks : req[r].handler = "running" => initc.done

\* The requests for the status routes, GET / and GET /health.
StatusRequests == {r \in Req : req[r].route \in {"/", "/health"}}

\* C24 as stated: no step of the serving of GET / or GET /health, the first
\* request of the process included, initialises the bot, registers the
\* webhook, starts the scheduler or changes anything but that request.
C24_StatusHasNoSideEffect ==
    [][ \A r \in StatusRequests :
          req'[r] # req[r] =>
              UNCHANGED <<bot_initialized, bot_ready, initc, loops, botVars, schedVars>> ]_vars

\* C28 as stated: once the initialisation has failed at any of its steps, no
\* handler is started for a webhook update.
C28_InitFailureIsFatal ==
    [][ initc.failed =>
          \A r \in Req : req'[r].handler = "running" => req[r].handler = "running" ]_vars

\* C30: the scheduler is started only after Application.initialize and
\* set_webhook have both succeeded; the initialisation is entered once, so
\* after a failure no request is in it again, no job has been added and no
\* job can fire.
C30_NoJobAfterFailedInit ==
    /\ (initc.start >= 1 \/ \E r \in Req : req[r].pc = "start")
       => (initc.initialize = 1 /\ initc.set_webhook = 1 /\ ~initc.failed)
    /\ jobs # {} => (initc.start = 1 /\ ~initc.failed)
    /\ initc.failed =>
          /\ jobs = {}
          /\ initc.entered = 1 /\ bot_initialized
          /\ \A r \in Req : req[r].pc \notin {"initialize", "set_webhook", "start"}
          /\ \A j \in JobIds : ~ENABLED (FireSkipped(j) \/ FireStart(j, FALSE))

\* C30 witness: the registration of the webhook failed after the bot was
\* initialised, and both requests, the one that ran the initialisation and a
\* later one, have been answered.
C30_Witness ==
    /\ initc.failed /\ initc.initialize = 1 /\ initc.set_webhook = 0
    /\ \A r \in Req : req[r].pc = "done"

=============================================================================
